---- MODULE Spec2Model ----
(***************************************************************************)
(* Decision-tree core of DecisionTreeTool.                                 *)
(*                                                                         *)
(* Strings on which the code computes (strip, lower, substring, regex) are *)
(* sequences of one-character strings; strings the code only compares      *)
(* (node_type, error messages) are TLA+ strings.  An Optional value is a   *)
(* sequence of length 0 (None) or 1.  Confidence is counted in tenths.     *)
(***************************************************************************)
EXTENDS Integers, Sequences, FiniteSets, TLC

VARIABLES
    nodes,       \* DecisionTree.nodes: node id -> DecisionNode
    root_id,     \* DecisionTree.root_id (NoId is None)
    created_at,  \* DecisionTree.created_at
    updated_at,  \* DecisionTree.updated_at
    now,         \* the value the next datetime.now() returns
    last,        \* the most recent API call: its arguments and its outcome
    \* DecisionTree.traverse: its argument and locals
    answers, current_id, path, visited, depth, action_text, pc,
    \* RobustDecisionTree.find_best_match: its arguments and its result
    m_node, m_answer, m_result,
    name,         \* DecisionTree.name
    description,  \* DecisionTree.description
    memo,         \* a traverse call remembered: its argument and what it returned
    \* RobustDecisionTree.traverse_robust: a local and what it returned
    cumulative_confidence, traversal_result,
    trees,            \* DecisionTreeCLI.trees: the trees by their ids
    current_tree,     \* DecisionTreeCLI.current_tree
    project_ctx,      \* DecisionTreeCLI.project_ctx: whether there is one
    current_project,  \* DecisionTreeCLI.current_project
    files,            \* the files of the project directories
    cli_last,         \* the most recent command and what it answered
    events,           \* EventStore.events: the memory cache
    disk_log,         \* the lines of the file EventStore.current_log names
    pidfile,          \* the pid the pidfile holds (None: no such file)
    running,          \* the pids of the daemon processes alive
    signalled,        \* the pids SIGTERM was sent to
    next_pid,         \* the pid the next fork returns
    caller            \* the processes calling start or stop: position, pid

treeVars == <<nodes, root_id, created_at, updated_at>>
callVars == <<now, last>>
traverseVars == <<answers, current_id, path, visited, depth, action_text, pc>>
matchVars == <<m_node, m_answer, m_result>>
metaVars == <<name, description>>
robustVars == <<cumulative_confidence, traversal_result>>
cliVars == <<trees, current_tree, project_ctx, current_project, files, cli_last>>
\* What the tree operations leave alone.
eventVars == <<events, disk_log>>
daemonVars == <<pidfile, running, signalled, next_pid, caller>>
besideVars == <<cliVars, eventVars, daemonVars>>
vars == <<nodes, root_id, created_at, updated_at, now, last,
          answers, current_id, path, visited, depth, action_text, pc,
          m_node, m_answer, m_result, name, description, memo,
          cumulative_confidence, traversal_result,
          trees, current_tree, project_ctx, current_project, files, cli_last,
          events, disk_log, pidfile, running, signalled, next_pid, caller>>

(***************************************************************************)
(* Bounds of the model.                                                    *)
(***************************************************************************)
\* Longest children map handed to find_best_match.
MaxChildren == 2
\* Decimal places to which traverse_robust's confidence is followed.
MaxDigits == 8
\* Size of the id space uuid4()[:8] draws from.
NumIds == 3
\* Last value of the clock; the clock advances by one each time it is read.
MaxTime == 6

Ids == 1..NumIds
\* A falsy id argument (None or the empty string).
NoId == 0

None == <<>>
Some(x) == <<x>>

(***************************************************************************)
(* str methods.                                                            *)
(***************************************************************************)
Whitespace == {" ", "\t", "\n"}

UpperCase == <<"A","B","C","D","E","F","G","H","I","J","K","L","M",
               "N","O","P","Q","R","S","T","U","V","W","X","Y","Z">>
LowerCase == <<"a","b","c","d","e","f","g","h","i","j","k","l","m",
               "n","o","p","q","r","s","t","u","v","w","x","y","z">>

lower_char(c) ==
    IF \E i \in 1..Len(UpperCase) : UpperCase[i] = c
    THEN LowerCase[CHOOSE i \in 1..Len(UpperCase) : UpperCase[i] = c]
    ELSE c

lower(s) == [i \in 1..Len(s) |-> lower_char(s[i])]

RECURSIVE lstrip(_)
lstrip(s) ==
    IF s # <<>> /\ Head(s) \in Whitespace THEN lstrip(Tail(s)) ELSE s

RECURSIVE rstrip(_)
rstrip(s) ==
    IF s # <<>> /\ s[Len(s)] \in Whitespace
    THEN rstrip(SubSeq(s, 1, Len(s) - 1))
    ELSE s

strip(s) == rstrip(lstrip(s))

\* needle in hay
contains(hay, needle) ==
    \E i \in 0..(Len(hay) - Len(needle)) :
        SubSeq(hay, i + 1, i + Len(needle)) = needle

startswith(s, prefix) ==
    Len(s) >= Len(prefix) /\ SubSeq(s, 1, Len(prefix)) = prefix

(***************************************************************************)
(* dict, as an insertion-ordered sequence of [answer, child] items.        *)
(***************************************************************************)
dict_keys(d) == {d[i].answer : i \in 1..Len(d)}
dict_values(d) == {d[i].child : i \in 1..Len(d)}
dict_has(d, k) == \E i \in 1..Len(d) : d[i].answer = k
dict_get(d, k) == d[CHOOSE i \in 1..Len(d) : d[i].answer = k].child

\* d[k] = v that adds an item and leaves the old one in place.
dict_set_append(d, k, v) == Append(d, [answer |-> k, child |-> v])

\* d[k] = v that forgets the other items.
dict_set_only(d, k, v) == <<[answer |-> k, child |-> v]>>

\* d[k] = v: an existing key keeps its position, a new key goes last.
dict_set(d, k, v) ==
    IF dict_has(d, k)
    THEN [i \in 1..Len(d) |->
            IF d[i].answer = k THEN [answer |-> k, child |-> v] ELSE d[i]]
    ELSE Append(d, [answer |-> k, child |-> v])

(***************************************************************************)
(* DecisionNode and DecisionTree.                                          *)
(***************************************************************************)
DecisionNode(id, question, node_type, action, confidence, metadata) ==
    [id |-> id, question |-> question, node_type |-> node_type,
     children |-> <<>>, action |-> action, confidence |-> confidence,
     metadata |-> IF metadata = None THEN "{}" ELSE metadata[1]]

EmptyNodes == [n \in {} |-> 0]

NodeTypes == {"condition", "action", "data"}

(***************************************************************************)
(* Arguments the callers pass.                                             *)
(***************************************************************************)
S_Go == <<"G", "o">>
S_Do == <<"D", "o">>
S_Run == <<"R", "u", "n">>
S_yes == <<"y", "e", "s">>
S_no == <<"n", "o">>

\* add_node(question, node_type, action, confidence, metadata)
AddNodeInputs ==
    { [question |-> <<" ", "G", "o", "\t">>, node_type |-> "condition",
       action |-> None, confidence |-> Some(0), metadata |-> Some("m")],
      [question |-> <<>>, node_type |-> "condition",
       action |-> None, confidence |-> None, metadata |-> None],
      [question |-> <<" ", "\t">>, node_type |-> "action",
       action |-> Some(S_Run), confidence |-> None, metadata |-> None],
      [question |-> S_Go, node_type |-> "decision",
       action |-> None, confidence |-> None, metadata |-> None],
      [question |-> S_Go, node_type |-> "data",
       action |-> None, confidence |-> Some(-1), metadata |-> None],
      [question |-> S_Do, node_type |-> "action",
       action |-> Some(S_Run), confidence |-> Some(11), metadata |-> None] }

\* add_child(parent_id, answer, child_id)
AnswerInputs == { <<" ", "y", "e", "s", " ">>, S_no, <<>>, <<" ">> }
IdInputs == Ids \cup {NoId}

NoInput ==
    [question |-> <<>>, node_type |-> "", action |-> None,
     confidence |-> None, metadata |-> None]

\* The call record of a DecisionTree that was constructed and not yet used.
NoCall ==
    [op |-> "init", error |-> "none", ret |-> NoId, inp |-> NoInput,
     parent |-> NoId, answer |-> <<>>, child |-> NoId, replaced |-> FALSE]

(***************************************************************************)
(* DecisionTree._would_create_cycle: depth-first search from child_id for  *)
(* parent_id, with one visited set shared by the whole search.             *)
(***************************************************************************)
RECURSIVE can_reach(_, _, _)
RECURSIVE can_reach_children(_, _, _, _)

\* can_reach(current_id, target_id) with the visited set seen so far: the
\* result and the visited set after the call.
can_reach(cid, target_id, seen) ==
    IF cid = target_id
    THEN [found |-> TRUE, visited |-> seen]
    ELSE IF cid \in seen \/ cid \notin DOMAIN nodes
    THEN [found |-> FALSE, visited |-> seen]
    ELSE can_reach_children(nodes[cid].children, 1, target_id,
                            seen \cup {cid})

\* The loop over self.nodes[current_id].children.values(), from item i on.
can_reach_children(children, i, target_id, seen) ==
    IF i > Len(children)
    THEN [found |-> FALSE, visited |-> seen]
    ELSE LET r == can_reach(children[i].child, target_id, seen)
         IN  IF r.found THEN r
             ELSE can_reach_children(children, i + 1, target_id, r.visited)

\* A check that knows the self-loop only.
would_create_cycle_self_only(parent_id, child_id) == parent_id = child_id

\* A check that searches from the parent for the child.
would_create_cycle_swapped(parent_id, child_id) ==
    IF parent_id = child_id
    THEN TRUE
    ELSE can_reach(parent_id, child_id, {}).found

would_create_cycle(parent_id, child_id) ==
    IF parent_id = child_id
    THEN TRUE
    ELSE can_reach(child_id, parent_id, {}).found

(***************************************************************************)
(* DecisionTree.__init__, add_node, add_child.                             *)
(***************************************************************************)
\* No traverse call was made.
TraverseIdle ==
    /\ answers = [is_dict |-> TRUE, items |-> <<>>]
    /\ current_id = NoId
    /\ path = <<>>
    /\ visited = {}
    /\ depth = 0
    /\ action_text = None
    /\ pc = "idle"

\* No find_best_match call was made.
MatchIdle ==
    /\ m_node = [children |-> <<>>, fallback_node |-> None,
                 fallback_reason |-> None]
    /\ m_answer = <<>>
    /\ m_result = [called |-> FALSE]

\* The defaults of DecisionTree.__init__.
DefaultMeta ==
    /\ name = "Decision Tree"
    /\ description = ""

\* No traverse_robust call was made.
RobustIdle ==
    /\ cumulative_confidence = [num |-> 1, digits |-> 0]
    /\ traversal_result = [returned |-> FALSE]

\* No command was given.
NoCommand == [op |-> "init", raised |-> FALSE, result |-> "none"]

\* No DecisionTreeCLI was made.
CliIdle ==
    /\ trees = <<>>
    /\ current_tree = NoId
    /\ project_ctx = FALSE
    /\ current_project = None
    /\ files = <<>>
    /\ cli_last = NoCommand

\* No EventStore was made.
EventIdle ==
    /\ events = <<>>
    /\ disk_log = <<>>

\* No process calls start or stop, no daemon runs.
Callers == {1, 2}
Idle == [at |-> "idle", pid |-> 0]
DaemonIdle ==
    /\ pidfile = None
    /\ running = {}
    /\ signalled = {}
    /\ next_pid = 1
    /\ caller = [c \in Callers |-> Idle]

BesideIdle == CliIdle /\ EventIdle /\ DaemonIdle

Init ==
    /\ nodes = EmptyNodes
    /\ root_id = NoId
    /\ created_at = 0
    /\ updated_at = 0
    /\ now = 1
    /\ last = NoCall
    /\ TraverseIdle
    /\ MatchIdle
    /\ DefaultMeta
    /\ memo = None
    /\ RobustIdle
    /\ BesideIdle

\* A validation that forgets the lower end of the confidence range.
add_node_error_no_lower_bound(question, node_type, confidence) ==
    IF question = <<>> \/ strip(question) = <<>>
    THEN "question"
    ELSE IF node_type \notin NodeTypes
    THEN "node_type"
    ELSE IF confidence # None /\ ~(confidence[1] <= 10)
    THEN "confidence"
    ELSE "none"

\* The ValueError add_node raises for these arguments, or "none".
add_node_error(question, node_type, confidence) ==
    IF question = <<>> \/ strip(question) = <<>>
    THEN "question"
    ELSE IF node_type \notin NodeTypes
    THEN "node_type"
    ELSE IF confidence # None /\ ~(0 <= confidence[1] /\ confidence[1] <= 10)
    THEN "confidence"
    ELSE "none"

\* node_id is the value of str(uuid.uuid4())[:8].
add_node(node_id, inp) ==
    LET error == add_node_error(inp.question, inp.node_type, inp.confidence)
        node == DecisionNode(node_id, strip(inp.question), inp.node_type,
                             inp.action, inp.confidence, inp.metadata)
    IN  IF error # "none"
        THEN /\ last' = [NoCall EXCEPT !.op = "add_node", !.error = error,
                                        !.inp = inp]
             /\ UNCHANGED <<treeVars, now>>
        ELSE /\ now < MaxTime
             /\ nodes' = [n \in DOMAIN nodes \cup {node_id} |->
                             IF n = node_id THEN node ELSE nodes[n]]
             /\ root_id' = IF root_id = NoId THEN node_id ELSE root_id
             /\ updated_at' = now
             /\ now' = now + 1
             /\ last' = [NoCall EXCEPT !.op = "add_node", !.ret = node_id,
                                        !.inp = inp]
             /\ UNCHANGED created_at

\* A validation that does not look the child up.
add_child_error_no_child_check(parent_id, answer, child_id) ==
    IF parent_id = NoId \/ parent_id \notin DOMAIN nodes
    THEN "parent_not_found"
    ELSE IF answer = <<>> \/ strip(answer) = <<>>
    THEN "answer"
    ELSE IF would_create_cycle(parent_id, child_id)
    THEN "cycle"
    ELSE "none"

\* A validation that does not look the parent up.
add_child_error_no_parent_check(parent_id, answer, child_id) ==
    IF child_id = NoId \/ child_id \notin DOMAIN nodes
    THEN "child_not_found"
    ELSE IF answer = <<>> \/ strip(answer) = <<>>
    THEN "answer"
    ELSE IF would_create_cycle(parent_id, child_id)
    THEN "cycle"
    ELSE "none"

\* The ValueError add_child raises for these arguments, or "none".
add_child_error(parent_id, answer, child_id) ==
    IF parent_id = NoId \/ parent_id \notin DOMAIN nodes
    THEN "parent_not_found"
    ELSE IF child_id = NoId \/ child_id \notin DOMAIN nodes
    THEN "child_not_found"
    ELSE IF answer = <<>> \/ strip(answer) = <<>>
    THEN "answer"
    ELSE IF would_create_cycle(parent_id, child_id)
    THEN "cycle"
    ELSE "none"

add_child(parent_id, answer, child_id) ==
    LET error == add_child_error(parent_id, answer, child_id)
        call == [NoCall EXCEPT !.op = "add_child", !.error = error,
                               !.parent = parent_id, !.answer = answer,
                               !.child = child_id]
        \* whether the assignment met an entry under the same answer
        replaced == dict_has(nodes[parent_id].children, strip(answer))
    IN  IF error # "none"
        THEN /\ last' = call
             /\ UNCHANGED <<treeVars, now>>
        ELSE IF parent_id \in DOMAIN nodes
        THEN /\ now < MaxTime
             /\ nodes' = [nodes EXCEPT ![parent_id].children =
                             dict_set(@, strip(answer), child_id)]
             /\ updated_at' = now
             /\ now' = now + 1
             /\ last' = [call EXCEPT !.replaced = replaced]
             /\ UNCHANGED <<root_id, created_at>>
        ELSE /\ last' = call
             /\ UNCHANGED <<treeVars, now>>

Next ==
    \/ \E node_id \in Ids, inp \in AddNodeInputs :
           /\ add_node(node_id, inp)
           /\ UNCHANGED <<traverseVars, matchVars, metaVars, memo, robustVars, besideVars>>
    \/ \E parent_id \in IdInputs, answer \in AnswerInputs, child_id \in IdInputs :
           /\ add_child(parent_id, answer, child_id)
           /\ UNCHANGED <<traverseVars, matchVars, metaVars, memo, robustVars, besideVars>>

Spec == Init /\ [][Next]_vars

(***************************************************************************)
(* The graph of the children maps.                                         *)
(***************************************************************************)
\* The parent-to-child edges.
Edges ==
    UNION { { <<p, c>> : c \in dict_values(nodes[p].children) } :
            p \in DOMAIN nodes }

Successors(S) == { e[2] : e \in { d \in Edges : d[1] \in S } }

RECURSIVE Closure(_, _)
Closure(S, k) ==
    IF k = 0 THEN S ELSE Closure(S \cup Successors(S), k - 1)

\* The nodes n reaches by one or more child edges.
Descendants(n) == Closure(Successors({n}), Cardinality(DOMAIN nodes))

\* C1: after any sequence of add_node and add_child calls no node reaches
\* itself by following one or more child edges.
C1_NoDirectedCycle ==
    \A n \in DOMAIN nodes : n \notin Descendants(n)

\* An edge was just accepted into a graph that holds a chain of two edges.
C1_Witness ==
    /\ last.op = "add_child" /\ last.error = "none"
    /\ \E a \in DOMAIN nodes, b \in DOMAIN nodes, c \in DOMAIN nodes :
          /\ Cardinality({a, b, c}) = 3
          /\ <<a, b>> \in Edges /\ <<b, c>> \in Edges

\* C2: every value of every children map is the id of a node of the graph,
\* and root_id is None exactly when the graph has no nodes and otherwise is
\* the id of a node of the graph.
C2_NoDanglingEdgeOrRoot ==
    /\ \A n \in DOMAIN nodes : dict_values(nodes[n].children) \subseteq DOMAIN nodes
    /\ (root_id = NoId) <=> (DOMAIN nodes = {})
    /\ root_id # NoId => root_id \in DOMAIN nodes

\* Three nodes, the root among them, and a child edge.
C2_Witness ==
    /\ Cardinality(DOMAIN nodes) = 3
    /\ root_id \in DOMAIN nodes
    /\ Edges # {}

\* Whether adding the edge parent -> child closes a cycle.
ClosesCycle(parent_id, child_id) ==
    parent_id = child_id \/ parent_id \in Descendants(child_id)

\* The step is a call add_child(last'.parent, last'.answer, last'.child)
\* whose edge would close a cycle between two nodes of the graph.
CycleClosingCall ==
    /\ last'.op = "add_child"
    /\ last'.parent \in DOMAIN nodes /\ last'.child \in DOMAIN nodes
    /\ ClosesCycle(last'.parent, last'.child)

\* C3 as claimed: add_child(n, answer, n), and add_child(B, answer, A) when
\* A already reaches B, fail with the cycle error for every answer string,
\* and the edge is not added.
C3_CycleErrorForEveryAnswer ==
    [][CycleClosingCall => (last'.error = "cycle" /\ nodes' = nodes)]_vars

\* C3 as amended: the cycle error is raised for every answer that is not
\* empty after trimming; an empty or whitespace-only answer is rejected with
\* the empty-answer error first; in both cases the edge is not added.
C3_CycleRejected ==
    [][CycleClosingCall =>
          /\ strip(last'.answer) # <<>> => last'.error = "cycle"
          /\ strip(last'.answer) = <<>> => last'.error = "answer"
          /\ nodes' = nodes]_vars

\* add_child(C, answer, A) was rejected with the cycle error where A reaches
\* C only through another node.
C3_Witness ==
    /\ last.op = "add_child" /\ last.error = "cycle"
    /\ last.parent # last.child
    /\ <<last.child, last.parent>> \notin Edges
    /\ last.parent \in Descendants(last.child)

\* C4: add_child with a parent_id or child_id that is no node of the graph
\* fails with the not-found error and leaves nodes, children maps, root_id
\* and the updated timestamp as they were.
C4_UnknownIdRejected ==
    [][( /\ last'.op = "add_child"
         /\ (last'.parent \notin DOMAIN nodes \/ last'.child \notin DOMAIN nodes) )
       => /\ last'.error \in {"parent_not_found", "child_not_found"}
          /\ nodes' = nodes
          /\ root_id' = root_id
          /\ updated_at' = updated_at]_vars

\* An existing parent was given a child id that is no node.
C4_Witness ==
    /\ last.op = "add_child" /\ last.error = "child_not_found"
    /\ last.parent \in DOMAIN nodes
    /\ last.child \notin DOMAIN nodes
    /\ last.child # NoId

\* The step is a call of add_node that returned an id.
AddNodeReturned == last'.op = "add_node" /\ last'.error = "none"

\* C5: a successful add_node returns an id no node of the graph has, so the
\* node count grows by one and no existing node is replaced or altered; the
\* new node becomes the root iff root_id was None; and no call changes a
\* root_id that is set.
C5_FreshIdAndStableRoot ==
    [][/\ AddNodeReturned =>
            /\ last'.ret \notin DOMAIN nodes
            /\ Cardinality(DOMAIN nodes') = Cardinality(DOMAIN nodes) + 1
            /\ \A n \in DOMAIN nodes : nodes'[n] = nodes[n]
            /\ (root_id' = last'.ret) <=> (root_id = NoId)
       /\ root_id # NoId => root_id' = root_id]_vars

\* The arguments of an add_node call that the contract rejects.
InvalidAddNode(inp) ==
    \/ strip(inp.question) = <<>>
    \/ inp.node_type \notin {"condition", "action", "data"}
    \/ /\ inp.confidence # None
       /\ (inp.confidence[1] < 0 \/ inp.confidence[1] > 10)

\* C6: add_node fails with a validation error on a question that is empty
\* after trimming, on an unknown node_type and on a confidence outside
\* [0.0, 1.0]; the failed call adds no node and leaves root_id and the
\* updated timestamp unchanged.
C6_InvalidNodeRejected ==
    [][(last'.op = "add_node" /\ InvalidAddNode(last'.inp))
       => /\ last'.error \in {"question", "node_type", "confidence"}
          /\ nodes' = nodes
          /\ root_id' = root_id
          /\ updated_at' = updated_at]_vars

\* A graph with nodes rejected an add_node with a negative confidence.
C6_Witness ==
    /\ last.op = "add_node" /\ last.error = "confidence"
    /\ last.inp.confidence[1] < 0
    /\ DOMAIN nodes # {}

\* The step is a call of add_child that returned.
AddChildReturned == last'.op = "add_child" /\ last'.error = "none"

\* The items of children map d stored under a key.
Items(d, k) == { i \in 1..Len(d) : d[i].answer = k }

\* C7: a successful add_child(parent_id, answer, child_id) makes the parent's
\* children map send the trimmed answer to child_id, in place of any entry
\* stored under that answer, and changes nothing else: the node set, root_id,
\* the parent's other entries and fields, every other node; only the updated
\* timestamp moves on.
C7_AddChildFrame ==
    [][AddChildReturned =>
          LET p == last'.parent
              k == strip(last'.answer)
              before == nodes[p].children
              after == nodes'[p].children
          IN  /\ Cardinality(Items(after, k)) = 1
              /\ \A i \in Items(after, k) : after[i].child = last'.child
              /\ dict_keys(after) = dict_keys(before) \cup {k}
              /\ \A j \in dict_keys(before) \ {k} :
                    /\ Cardinality(Items(after, j)) = 1
                    /\ dict_get(after, j) = dict_get(before, j)
              /\ DOMAIN nodes' = DOMAIN nodes
              /\ \A n \in DOMAIN nodes \ {p} : nodes'[n] = nodes[n]
              /\ [nodes'[p] EXCEPT !.children = before] = nodes[p]
              /\ root_id' = root_id
              /\ created_at' = created_at
              /\ updated_at' > updated_at]_vars

\* An answer passed with surrounding whitespace replaced the entry stored
\* under it, in a children map that holds another answer too.
C7_Witness ==
    /\ last.op = "add_child" /\ last.error = "none"
    /\ last.replaced
    /\ strip(last.answer) # last.answer
    /\ Len(nodes[last.parent].children) = 2

\* The entries of the children maps: parent, answer, child.
Entries ==
    UNION { { <<p, nodes[p].children[i].answer, nodes[p].children[i].child>> :
              i \in 1..Len(nodes[p].children) } : p \in DOMAIN nodes }

\* C8 as claimed, over the calls of add_child: a node of the graph stays in
\* the graph and a parent-to-child edge that exists before a call of
\* add_child exists after it.
C8_AppendOnly ==
    [][/\ DOMAIN nodes \subseteq DOMAIN nodes'
       /\ last'.op = "add_child" => \A e \in Edges : e \in Edges']_vars

\* C8 as amended: a node id of the graph stays in the graph, and add_child
\* removes no entry of a children map other than the one stored on the same
\* parent under the same trimmed answer, which it points at the new child.
C8_NodesStayEntriesOverwritten ==
    [][/\ DOMAIN nodes \subseteq DOMAIN nodes'
       /\ last'.op = "add_child" =>
             \A e \in Entries :
                \/ e \in Entries'
                \/ /\ last'.error = "none"
                   /\ e[1] = last'.parent
                   /\ e[2] = strip(last'.answer)
                   /\ <<e[1], e[2], last'.child>> \in Entries']_vars

\* An add_child replaced an entry, so that the edge to the former child is
\* gone, in a graph of three nodes.
C8_Witness ==
    /\ last.op = "add_child" /\ last.error = "none"
    /\ last.replaced
    /\ Cardinality(DOMAIN nodes) = 3
    /\ Cardinality(Edges) = 1

(***************************************************************************)
(* DecisionTree.traverse, one action per iteration of its loop.            *)
(***************************************************************************)
S_is_it_urgent ==
    <<"I", "s", " ", "i", "t", " ", "u", "r", "g", "e", "n", "t", "?">>
S_check_severity ==
    <<"C", "h", "e", "c", "k", " ", "s", "e", "v", "e", "r", "i", "t",
      "y">>
S_escalate_now ==
    <<"E", "s", "c", "a", "l", "a", "t", "e", " ", "n", "o", "w">>
S_log_only == <<"L", "o", "g", " ", "o", "n", "l", "y">>
S_low == <<"l", "o", "w">>
S_maybe == <<"m", "a", "y", "b", "e">>
S_true == <<"t", "r", "u", "e">>
S_1 == <<"1">>
S_y == <<"y">>
S_Y_ == <<"Y", " ">>
S_NO == <<"N", "O">>
S_n == <<"n">>
S_urgent == <<"u", "r", "g", "e", "n", "t">>
S_no_action_specified ==
    <<"N", "o", " ", "a", "c", "t", "i", "o", "n", " ", "s", "p", "e",
      "c", "i", "f", "i", "e", "d">>

max_depth == 100

\* str(value).lower().strip() in ["true", "yes", "1", "y"]
is_truthy(value) == strip(lower(value)) \in {S_true, S_yes, S_1, S_y}

\* answers as a dict: insertion-ordered [key, value] items.
answers_has(items, k) == \E j \in 1..Len(items) : items[j].key = k
answers_get(items, k) == items[CHOOSE j \in 1..Len(items) : items[j].key = k].value

Min(S) == CHOOSE x \in S : \A y \in S : x <= y

\* The first loop over current_node.children.items(): the first child whose
\* answer is a key of answers with a truthy value.
exact_match(children, items) ==
    LET hits == { i \in 1..Len(children) :
                    /\ answers_has(items, children[i].answer)
                    /\ is_truthy(answers_get(items, children[i].answer)) }
    IN  IF hits = {}
        THEN [next_id |-> NoId, matched_answer |-> None, fuzzy |-> FALSE]
        ELSE [next_id |-> children[Min(hits)].child,
              matched_answer |-> Some(children[Min(hits)].answer),
              fuzzy |-> FALSE]

\* answer.lower() in user_answer_key.lower() or the other way round, for a
\* key of answers with a truthy value.
fuzzy_hit(answer, items) ==
    \E j \in 1..Len(items) :
        /\ \/ contains(lower(items[j].key), lower(answer))
           \/ contains(lower(answer), lower(items[j].key))
        /\ is_truthy(items[j].value)

\* The second loop: it stops at the first child with a hit and a truthy id.
fuzzy_match(children, items) ==
    LET hits == { i \in 1..Len(children) :
                    /\ fuzzy_hit(children[i].answer, items)
                    /\ children[i].child # NoId }
    IN  IF hits = {}
        THEN [next_id |-> NoId, matched_answer |-> None, fuzzy |-> FALSE]
        ELSE [next_id |-> children[Min(hits)].child,
              matched_answer |-> Some(children[Min(hits)].answer),
              fuzzy |-> TRUE]

\* next_id and matched_answer after both loops.
find_next(children, items) ==
    LET e == exact_match(children, items)
    IN  IF e.next_id # NoId THEN e ELSE fuzzy_match(children, items)

\* The keys of a children map, in insertion order.
dict_key_list(d) == [i \in 1..Len(d) |-> d[i].answer]

\* A set of visited nodes left over from the call before.
visited_of_last_call == visited

\* visited = set()
new_visited == {}

\* traverse(answers) up to the loop.
traverse(arg) ==
    /\ pc \in {"idle", "done"}
    /\ answers' = arg
    /\ visited' = new_visited
    /\ depth' = 0
    /\ action_text' = None
    /\ IF root_id = NoId
       THEN /\ path' = <<[kind |-> "Error: Empty tree"]>>
            /\ current_id' = NoId
            /\ pc' = "done"
       ELSE IF ~arg.is_dict
       THEN /\ path' = <<[kind |-> "Error: Answers must be a dictionary"]>>
            /\ current_id' = NoId
            /\ pc' = "done"
       ELSE /\ path' = <<>>
            /\ current_id' = root_id
            /\ pc' = "loop"
    /\ UNCHANGED <<treeVars, callVars>>

\* A loop test without the depth limit.
loop_continues_without_limit(cid, d) == cid # NoId

\* while current_id and depth < max_depth
loop_continues(cid, d) == cid # NoId /\ d < max_depth

\* return None, path with the trace thrown away.
traverse_return_none_without_trace(p) ==
    /\ path' = <<>>
    /\ action_text' = None
    /\ pc' = "done"
    /\ UNCHANGED current_id

\* return None, path
traverse_return_none(p) ==
    /\ path' = p
    /\ action_text' = None
    /\ pc' = "done"
    /\ UNCHANGED current_id

\* The test of the while loop and one pass through its body.
traverse_loop ==
    /\ pc = "loop"
    /\ UNCHANGED <<treeVars, callVars, answers>>
    /\ IF ~loop_continues(current_id, depth)
       THEN /\ UNCHANGED <<visited, depth>>
            /\ IF depth >= max_depth
               THEN traverse_return_none(
                        Append(path, [kind |-> "Maximum traversal depth reached"]))
               ELSE traverse_return_none(path)
       ELSE IF current_id \in visited
       THEN /\ UNCHANGED <<visited, depth>>
            /\ traverse_return_none(
                   Append(path, [kind |-> "Cycle detected at node",
                                 id |-> current_id]))
       ELSE /\ visited' = visited \cup {current_id}
            /\ depth' = depth + 1
            /\ IF current_id \notin DOMAIN nodes
               THEN traverse_return_none(
                        Append(path, [kind |-> "Error: Node not found",
                                      id |-> current_id]))
               ELSE LET current_node == nodes[current_id]
                        path1 == Append(path, [kind |-> "Node",
                                               text |-> current_node.question])
                        text == IF current_node.action \in {None, Some(<<>>)}
                                THEN S_no_action_specified
                                ELSE current_node.action[1]
                        next == find_next(current_node.children, answers.items)
                    IN  IF current_node.node_type = "action"
                        THEN /\ path' = Append(path1, [kind |-> "Action",
                                                       text |-> text])
                             /\ action_text' = Some(text)
                             /\ pc' = "done"
                             /\ UNCHANGED current_id
                        ELSE IF next.next_id = NoId
                        THEN traverse_return_none(
                                 Append(path1,
                                     [kind |-> "No matching path found",
                                      available |->
                                          dict_key_list(current_node.children)]))
                        ELSE /\ path' = Append(path1,
                                     [kind |-> "Answer",
                                      text |-> next.matched_answer[1],
                                      fuzzy |-> next.fuzzy])
                             /\ current_id' = next.next_id
                             /\ action_text' = None
                             /\ pc' = "loop"

(***************************************************************************)
(* Trees to traverse and the answers passed.                               *)
(***************************************************************************)
\* A node as add_node and add_child leave it.
Node(id, question, node_type, action, children) ==
    [id |-> id, question |-> question, node_type |-> node_type,
     children |-> children, action |-> action, confidence |-> None,
     metadata |-> "{}"]

Item(answer, child) == [answer |-> answer, child |-> child]

\* root "Is it urgent?": yes -> action "Escalate now", no -> "Check
\* severity": low -> action "Log only".
ScenarioNodes ==
    <<Node(1, S_is_it_urgent, "condition", None,
           <<Item(S_yes, 2), Item(S_no, 3)>>),
      Node(2, S_escalate_now, "action", Some(S_escalate_now), <<>>),
      Node(3, S_check_severity, "condition", None, <<Item(S_low, 4)>>),
      Node(4, S_log_only, "action", Some(S_log_only), <<>>)>>

\* The same tree with its first edge labelled by a word of the question.
KeywordNodes ==
    <<Node(1, S_is_it_urgent, "condition", None,
           <<Item(S_urgent, 2), Item(S_no, 3)>>),
      Node(2, S_escalate_now, "action", Some(S_escalate_now), <<>>),
      Node(3, S_check_severity, "data", None, <<Item(S_low, 4)>>),
      Node(4, S_log_only, "action", None, <<>>)>>

\* One action node, without action text.
SingleNodes == <<Node(1, S_log_only, "action", None, <<>>)>>

\* Trees as from_dict or an edit of nodes can make them: two nodes that
\* point at each other, and a child id that is no node.
CyclicNodes ==
    <<Node(1, S_is_it_urgent, "condition", None, <<Item(S_yes, 2)>>),
      Node(2, S_check_severity, "condition", None, <<Item(S_yes, 1)>>)>>

DanglingNodes ==
    <<Node(1, S_is_it_urgent, "condition", None,
           <<Item(S_yes, 9), Item(S_no, NoId)>>)>>

\* A chain one node longer than the depth limit: every node asks the same
\* question and has the edge yes to the next one.
ChainLen == max_depth + 1

ChainNodes ==
    [i \in 1..ChainLen |->
        Node(i, S_is_it_urgent, "condition", None,
             IF i < ChainLen THEN <<Item(S_yes, i + 1)>> ELSE <<>>)]

\* A ring of as many nodes as the depth limit.
RingLen == max_depth

RingNodes ==
    [i \in 1..RingLen |->
        Node(i, S_is_it_urgent, "condition", None,
             <<Item(S_yes, (i % RingLen) + 1)>>)]

TraverseTrees ==
    { [nodes |-> ScenarioNodes, root_id |-> 1],
      [nodes |-> ChainNodes, root_id |-> 1],
      [nodes |-> RingNodes, root_id |-> 1],
      [nodes |-> KeywordNodes, root_id |-> 1],
      [nodes |-> SingleNodes, root_id |-> 1],
      [nodes |-> EmptyNodes, root_id |-> NoId],
      [nodes |-> CyclicNodes, root_id |-> 1],
      [nodes |-> DanglingNodes, root_id |-> 1] }

Answer(key, value) == [key |-> key, value |-> value]
Dict(items) == [is_dict |-> TRUE, items |-> items]

A_no_low == Dict(<<Answer(S_is_it_urgent, S_no), Answer(S_check_severity, S_low)>>)
A_yes == Dict(<<Answer(S_is_it_urgent, S_yes)>>)
A_maybe == Dict(<<Answer(S_is_it_urgent, S_maybe)>>)

TraverseAnswers ==
    { A_no_low, A_yes, A_maybe,
      Dict(<<Answer(S_no, S_yes), Answer(S_low, S_true)>>),
      Dict(<<Answer(S_yes, S_Y_)>>),
      Dict(<<>>),
      Dict(<<Answer(S_NO, S_1)>>),
      Dict(<<Answer(S_yes, S_no), Answer(S_no, S_no)>>),
      Dict(<<Answer(S_n, S_y)>>),
      [is_dict |-> FALSE, items |-> <<>>] }

\* The number of add_node and add_child calls that built a tree.
Mutations(ns) ==
    Len(ns) + Cardinality(UNION { { <<n, i>> : i \in 1..Len(ns[n].children) } :
                                  n \in DOMAIN ns })

InitTraverse ==
    /\ \E t \in TraverseTrees :
          /\ nodes = t.nodes
          /\ root_id = t.root_id
          /\ updated_at = Mutations(t.nodes)
          /\ now = Mutations(t.nodes) + 1
    /\ created_at = 0
    /\ last = NoCall
    /\ TraverseIdle
    /\ MatchIdle
    /\ DefaultMeta
    /\ memo = None
    /\ RobustIdle
    /\ BesideIdle

\* What the traverse call that has just returned was given and returned;
\* again says that another call was made since.
Returned ==
    [answers |-> answers', action_text |-> action_text', path |-> path',
     again |-> FALSE]

\* One of the calls of a run is remembered when it returns.
remember ==
    IF memo = None
    THEN \/ UNCHANGED memo
         \/ /\ pc' = "done"
            /\ memo' = Some(Returned)
    ELSE memo' = IF pc = "done"
                 THEN Some([memo[1] EXCEPT !.again = TRUE])
                 ELSE memo

\* A call of traverse.
traverse_call ==
    \E arg \in TraverseAnswers :
        /\ traverse(arg)
        /\ UNCHANGED <<matchVars, metaVars, memo, robustVars, besideVars>>

\* The call runs on.
traverse_step ==
    /\ traverse_loop
    /\ UNCHANGED <<matchVars, metaVars, memo, robustVars, besideVars>>

NextTraverse == traverse_call \/ traverse_step

SpecTraverse == InitTraverse /\ [][NextTraverse]_vars

\* The loop is not starved: a call that was made runs on.
FairSpecTraverse == SpecTraverse /\ WF_vars(traverse_step)

\* Calls of traverse, one of which is remembered.
repeat_call ==
    \E arg \in TraverseAnswers :
        /\ traverse(arg)
        /\ remember
        /\ UNCHANGED <<matchVars, metaVars, robustVars, besideVars>>

repeat_step ==
    /\ traverse_loop
    /\ remember
    /\ UNCHANGED <<matchVars, metaVars, robustVars, besideVars>>

NextRepeat == repeat_call \/ repeat_step

SpecRepeat == InitTraverse /\ [][NextRepeat]_vars

\* The number of nodes on a path.
NodeCount(p) == Cardinality({ i \in 1..Len(p) : p[i].kind = "Node" })

\* traverse(arg) on the scenario tree has returned.
ScenarioDone(arg) ==
    /\ pc = "done"
    /\ nodes = ScenarioNodes /\ root_id = 1
    /\ answers = arg

\* C9: traversal follows at each condition node the child edge whose label is
\* the value the answers map gives for the node's question: on the scenario
\* tree traverse({'Is it urgent?': 'no', 'Check severity': 'low'}) returns
\* 'Log only' with a 3-node path and traverse({'Is it urgent?': 'yes'})
\* returns 'Escalate now' with a 2-node path.
C9_ScenarioTraversal ==
    /\ ScenarioDone(A_no_low) =>
          (action_text = Some(S_log_only) /\ NodeCount(path) = 3)
    /\ ScenarioDone(A_yes) =>
          (action_text = Some(S_escalate_now) /\ NodeCount(path) = 2)

\* The child edge the three stages select for an answer: the earliest
\* inserted edge of the first stage with a match, 0 when no stage has one.
StagedEdge(children, answer) ==
    LET exact == { i \in 1..Len(children) : children[i].answer = answer }
        insensitive == { i \in 1..Len(children) :
                           lower(children[i].answer) = lower(answer) }
        substring == { i \in 1..Len(children) :
                         \/ contains(lower(children[i].answer), lower(answer))
                         \/ contains(lower(answer), lower(children[i].answer)) }
    IN  IF exact # {} THEN Min(exact)
        ELSE IF insensitive # {} THEN Min(insensitive)
        ELSE IF substring # {} THEN Min(substring)
        ELSE 0

\* The loop is about to select an edge at a condition node.
AtConditionNode ==
    /\ pc = "loop"
    /\ current_id \in DOMAIN nodes
    /\ current_id \notin visited
    /\ depth < max_depth
    /\ nodes[current_id].node_type = "condition"

\* C10: at a condition node the edge followed is selected by an exact match of
\* the answer against a child-edge label, then a case-insensitive match, then
\* a substring match (label contains answer or answer contains label); the
\* first stage with a match decides, and within a stage the earliest-inserted
\* matching child wins; with no match the traversal ends without an action.
C10_MatchPrecedence ==
    [][AtConditionNode =>
          LET node == nodes[current_id]
              edge == IF answers_has(answers.items, node.question)
                      THEN StagedEdge(node.children,
                                      answers_get(answers.items, node.question))
                      ELSE 0
          IN  IF edge # 0
              THEN /\ pc' = "loop"
                   /\ current_id' = node.children[edge].child
              ELSE /\ pc' = "done"
                   /\ action_text' = None]_vars

\* The last entry of the trace.
LastEntry(p) == p[Len(p)]

BoundedWalk ==
    /\ Cardinality(visited) = depth
    /\ depth <= max_depth

\* After max_depth nodes the walk ends with the maximum-depth outcome.
DepthLimitEndsWalk ==
    [][(pc = "loop" /\ current_id # NoId /\ depth >= max_depth)
       => /\ pc' = "done"
          /\ action_text' = None
          /\ path' = Append(path, [kind |-> "Maximum traversal depth reached"])
      ]_vars

\* A call that was made returns.
TraverseReturns == (pc = "loop") ~> (pc = "done")

\* C12: traverse terminates for every graph and every answers map; it never
\* processes the same node twice, a revisit ends the walk with a
\* cycle-detected outcome and no action, and after 100 nodes the walk ends
\* with a maximum-depth outcome and no action.
C12_RevisitAlwaysCycleOutcome ==
    /\ []BoundedWalk
    /\ [][(pc = "loop" /\ current_id # NoId /\ current_id \in visited)
          => /\ pc' = "done"
             /\ action_text' = None
             /\ LastEntry(path').kind = "Cycle detected at node"]_vars
    /\ TraverseReturns

\* C12 (amended): traverse terminates for every graph and every answers map;
\* it never processes the same node twice and processes at most 100 nodes; a
\* revisit met before 100 nodes were processed ends the walk with a
\* cycle-detected outcome and no action, and once 100 nodes were processed
\* the walk ends with a maximum-depth outcome and no action, even when the
\* next node is one already visited.
C12_TraverseTerminates ==
    /\ []BoundedWalk
    /\ [][(pc = "loop" /\ current_id # NoId /\ depth < max_depth
              /\ current_id \in visited)
          => /\ pc' = "done"
             /\ action_text' = None
             /\ path' = Append(path, [kind |-> "Cycle detected at node",
                                      id |-> current_id])]_vars
    /\ DepthLimitEndsWalk
    /\ TraverseReturns

\* The walk round the ring was ended by the depth limit at a visited node.
C12_Witness ==
    /\ pc = "done"
    /\ nodes = RingNodes
    /\ depth = max_depth
    /\ current_id \in visited
    /\ action_text = None
    /\ LastEntry(path).kind = "Maximum traversal depth reached"

\* C14: for a fixed graph and a fixed answers map repeated traverse calls
\* return the identical action and the identical path, and no traverse call
\* changes the node set, a children map or root_id.
C14_DeterministicReadOnly ==
    /\ []((pc = "done" /\ memo # None /\ memo[1].answers = answers)
          => (memo[1].action_text = action_text /\ memo[1].path = path))
    /\ [][UNCHANGED <<nodes, root_id>>]_vars

\* A later call with the answers of the remembered one has returned a trace.
C14_Witness ==
    /\ pc = "done"
    /\ memo # None
    /\ memo[1].again
    /\ memo[1].answers = answers
    /\ Len(path) > 2
    /\ memo[1].path = path

(***************************************************************************)
(* RobustDecisionTree.find_best_match.                                     *)
(*                                                                         *)
(* re.match is modelled for patterns made of literal characters, "." and   *)
(* "*": a "*" with nothing before it to repeat makes re.match raise.       *)
(***************************************************************************)
S_regex_prefix == <<"r", "e", "g", "e", "x", ":">>

\* Whether re.compile accepts the pattern.
re_valid(pattern) ==
    \A i \in 1..Len(pattern) :
        pattern[i] = "*" => (i > 1 /\ pattern[i - 1] # "*")

RECURSIVE re_match_here(_, _)
RECURSIVE re_match_star(_, _, _)

\* Whether the pattern matches a prefix of the text.
re_match_here(pattern, text) ==
    IF pattern = <<>>
    THEN TRUE
    ELSE IF Len(pattern) >= 2 /\ pattern[2] = "*"
    THEN re_match_star(pattern[1], SubSeq(pattern, 3, Len(pattern)), text)
    ELSE /\ text # <<>>
         /\ (pattern[1] = "." \/ pattern[1] = text[1])
         /\ re_match_here(Tail(pattern), Tail(text))

\* c* followed by the pattern.
re_match_star(c, pattern, text) ==
    \/ re_match_here(pattern, text)
    \/ /\ text # <<>>
       /\ (c = "." \/ c = text[1])
       /\ re_match_star(c, pattern, Tail(text))

\* re.match(pattern, answer) is a match.
re_match(pattern, answer) == re_match_here(pattern, answer)

\* What find_best_match returns or, with raised, that it raised re.error.
MatchResult(next_id, confidence, reason) ==
    [called |-> TRUE, raised |-> FALSE, next_id |-> next_id,
     confidence |-> confidence, reason |-> reason]

MatchRaised ==
    [called |-> TRUE, raised |-> TRUE, next_id |-> NoId, confidence |-> 0,
     reason |-> "re.error"]

\* Last statements that know no fallback.
use_fallback_never(node, reason, no_fallback_reason) ==
    MatchResult(NoId, 0, no_fallback_reason)

\* The last statements: the fallback, if there is one.
use_fallback(node, reason, no_fallback_reason) ==
    IF node.fallback_node # None /\ node.fallback_node[1] # NoId
    THEN MatchResult(node.fallback_node[1], 5,
                     IF node.fallback_reason = None THEN reason
                     ELSE node.fallback_reason[1])
    ELSE MatchResult(NoId, 0, no_fallback_reason)

RECURSIVE partial_loop(_, _, _)
\* The loop of the partial match, from item i on.
partial_loop(node, answer, i) ==
    IF i > Len(node.children)
    THEN use_fallback(node, "Using fallback", "No match or fallback")
    ELSE LET child_answer == node.children[i].answer
         IN  IF startswith(child_answer, S_regex_prefix)
             THEN partial_loop(node, answer, i + 1)
             ELSE IF \/ contains(lower(child_answer), lower(answer))
                     \/ contains(lower(answer), lower(child_answer))
             THEN MatchResult(node.children[i].child, 7, "Partial match")
             ELSE partial_loop(node, answer, i + 1)

RECURSIVE regex_loop(_, _, _)
\* The loop over the regex: keys, from item i on, and what follows it.
regex_loop(node, answer, i) ==
    IF i > Len(node.children)
    THEN partial_loop(node, answer, 1)
    ELSE LET child_answer == node.children[i].answer
             pattern == SubSeq(child_answer, 7, Len(child_answer))
         IN  IF ~startswith(child_answer, S_regex_prefix)
             THEN regex_loop(node, answer, i + 1)
             ELSE IF ~re_valid(pattern)
             THEN MatchRaised
             ELSE IF re_match(pattern, answer)
             THEN MatchResult(node.children[i].child, 8, "Regex match")
             ELSE regex_loop(node, answer, i + 1)

RECURSIVE case_insensitive_loop(_, _, _)
\* The loop of the case-insensitive match, from item i on, and what follows.
case_insensitive_loop(node, answer, i) ==
    IF i > Len(node.children)
    THEN regex_loop(node, answer, 1)
    ELSE IF lower(node.children[i].answer) = lower(answer)
    THEN MatchResult(node.children[i].child, 9, "Case-insensitive match")
    ELSE case_insensitive_loop(node, answer, i + 1)

\* find_best_match with the partial match tried before the regex keys.
find_best_match_partial_first(node, answer) ==
    IF node.children = <<>>
    THEN use_fallback(node, "No children, using fallback", "No children")
    ELSE IF dict_has(node.children, answer)
    THEN MatchResult(dict_get(node.children, answer), 10, "Exact match")
    ELSE LET ci == { i \in 1..Len(node.children) :
                       lower(node.children[i].answer) = lower(answer) }
             r == partial_loop(node, answer, 1)
         IN  IF ci # {}
             THEN MatchResult(node.children[Min(ci)].child, 9,
                              "Case-insensitive match")
             ELSE IF r.reason = "Partial match" THEN r
             ELSE regex_loop(node, answer, 1)

find_best_match(node, answer) ==
    IF node.children = <<>>
    THEN use_fallback(node, "No children, using fallback", "No children")
    ELSE IF dict_has(node.children, answer)
    THEN MatchResult(dict_get(node.children, answer), 10, "Exact match")
    ELSE case_insensitive_loop(node, answer, 1)

\* A call of find_best_match.
find_best_match_call ==
    /\ ~m_result.called
    /\ m_result' = find_best_match(m_node, m_answer)
    /\ UNCHANGED <<m_node, m_answer>>

(***************************************************************************)
(* Nodes and answers handed to find_best_match.                            *)
(***************************************************************************)
S_Yes == <<"Y", "e", "s">>
S_YES == <<"Y", "E", "S">>
S_yes_bang == <<"y", "e", "s", "!">>
S_ye == <<"y", "e">>
S_e == <<"e">>
S_regex_y_any == <<"r", "e", "g", "e", "x", ":", "y", ".", "*">>
S_regex_star == <<"r", "e", "g", "e", "x", ":", "*">>

MatchLabels ==
    { S_yes, S_Yes, S_YES, S_yes_bang, S_no, S_regex_y_any, S_regex_star }

MatchAnswerInputs == { S_yes, S_Yes, S_ye, S_e, S_no, S_maybe, <<>> }

\* The children maps of up to MaxChildren keys; the child of item i is i.
RECURSIVE LabelSeqs(_)
LabelSeqs(n) ==
    IF n = 0 THEN { <<>> }
    ELSE LET shorter == LabelSeqs(n - 1)
         IN  shorter \cup
             { Append(q, l) : q \in { r \in shorter : Len(r) = n - 1 },
                              l \in MatchLabels }

MatchChildren ==
    { [i \in 1..Len(q) |-> Item(q[i], i)] :
        q \in { r \in LabelSeqs(MaxChildren) :
                  \A i, j \in 1..Len(r) : i # j => r[i] # r[j] } }

\* The id of the fallback node.
FallbackId == 9

InitMatch ==
    /\ nodes = EmptyNodes
    /\ root_id = NoId
    /\ created_at = 0
    /\ updated_at = 0
    /\ now = 1
    /\ last = NoCall
    /\ TraverseIdle
    /\ m_node \in { [children |-> c, fallback_node |-> f,
                     fallback_reason |-> None] :
                    c \in MatchChildren, f \in {None, Some(FallbackId)} }
    /\ m_answer \in MatchAnswerInputs
    /\ m_result = [called |-> FALSE]
    /\ DefaultMeta
    /\ memo = None
    /\ RobustIdle
    /\ BesideIdle

NextMatch ==
    /\ find_best_match_call
    /\ UNCHANGED <<treeVars, callVars, traverseVars, metaVars, memo, robustVars, besideVars>>

SpecMatch == InitMatch /\ [][NextMatch]_vars

(***************************************************************************)
(* RobustDecisionTree.traverse_robust, called without a context.           *)
(*                                                                         *)
(* The confidence is the exact decimal num / 10^digits.  The lists path,   *)
(* fallbacks_used and validation_errors and the dict context_used are only *)
(* added to and never read by the loop; of the result the model keeps the  *)
(* action, the confidence, final_node_id and the kind of the last entry of *)
(* path.  Nodes have the weight, min_confidence and confidence_adjustment   *)
(* that add_node gives them when they are not passed, no context           *)
(* requirements and no validators.                                         *)
(***************************************************************************)
\* RobustDecisionTree.__init__: default_confidence = 1.0
default_confidence == [num |-> 1, digits |-> 0]
\* RobustDecisionTree.__init__: confidence_threshold = 0.5, in tenths
confidence_threshold == 5
\* DecisionNode.min_confidence = 0.0, in tenths
min_confidence == 0

RECURSIVE Pow10(_)
Pow10(k) == IF k = 0 THEN 1 ELSE 10 * Pow10(k - 1)

\* cumulative_confidence *= match_confidence * current_node.weight, with the
\* match confidence in tenths and the weight 1.0.
times(c, tenths) ==
    IF tenths = 10 THEN c
    ELSE [num |-> c.num * tenths, digits |-> c.digits + 1]

\* c < tenths / 10
below(c, tenths) == 10 * c.num < tenths * Pow10(c.digits)

\* str(None)
S_None == <<"N", "o", "n", "e">>

\* A node of a RobustDecisionTree.
RobustNode(id, question, node_type, action, children, fallback_node) ==
    [id |-> id, question |-> question, node_type |-> node_type,
     children |-> children, action |-> action,
     fallback_node |-> fallback_node,
     fallback_reason |-> IF fallback_node = None THEN None
                         ELSE Some("No match found")]

\* return TraversalResult(...)
TraversalResult(action, confidence, final_node_id, entry) ==
    [returned |-> TRUE, raised |-> FALSE, action |-> action,
     confidence |-> confidence, final_node_id |-> final_node_id,
     entry |-> entry]

\* An exception leaves traverse_robust: no TraversalResult.
RobustRaised(error) ==
    [returned |-> FALSE, raised |-> TRUE, error |-> error]

\* traverse_robust(answers) up to the loop.
traverse_robust(arg) ==
    /\ pc \in {"idle", "done"}
    /\ answers' = arg
    /\ IF root_id = NoId
       THEN /\ traversal_result' =
                   TraversalResult(None, [num |-> 0, digits |-> 0], NoId,
                                   "Error: Empty tree")
            /\ pc' = "done"
            /\ UNCHANGED <<current_id, cumulative_confidence>>
       ELSE /\ current_id' = root_id
            /\ cumulative_confidence' = default_confidence
            /\ traversal_result' = [returned |-> FALSE]
            /\ pc' = "loop"
    /\ UNCHANGED <<treeVars, callVars, path, visited, depth, action_text>>

\* return from the loop.
robust_return(result) ==
    /\ traversal_result' = result
    /\ pc' = "done"
    /\ UNCHANGED <<current_id, cumulative_confidence>>

\* The end of a pass with a next_id: the confidence is updated and compared
\* with the threshold.
robust_advance(current_node, next_id, match_confidence) ==
    LET confidence == times(cumulative_confidence, match_confidence)
    IN  /\ cumulative_confidence.digits < MaxDigits
        /\ IF below(confidence, confidence_threshold)
              /\ current_node.fallback_node \in {None, Some(NoId)}
           THEN /\ traversal_result' =
                       TraversalResult(None, confidence, current_id,
                                       "below threshold")
                /\ cumulative_confidence' = confidence
                /\ pc' = "done"
                /\ UNCHANGED current_id
           ELSE /\ current_id' =
                       IF below(confidence, confidence_threshold)
                       THEN current_node.fallback_node[1]
                       ELSE next_id
                /\ cumulative_confidence' = confidence
                /\ UNCHANGED <<traversal_result, pc>>

\* The test of the while loop and one pass through its body.
traverse_robust_loop ==
    /\ pc = "loop"
    /\ UNCHANGED <<treeVars, callVars, answers, path, visited, depth, action_text>>
    /\ IF current_id = NoId
       THEN robust_return(TraversalResult(None, cumulative_confidence,
                                          current_id, "none"))
       ELSE IF current_id \notin DOMAIN nodes
       THEN robust_return(RobustRaised("KeyError"))
       ELSE LET current_node == nodes[current_id]
                answer_key == current_node.question
                has_fallback ==
                    current_node.fallback_node \notin {None, Some(NoId)}
                no_answer == ~answers_has(answers.items, answer_key)
                answer == IF no_answer THEN S_None
                          ELSE answers_get(answers.items, answer_key)
                match == find_best_match(current_node, answer)
            IN  IF below(cumulative_confidence, min_confidence) /\ ~has_fallback
                THEN robust_return(
                         TraversalResult(None, cumulative_confidence,
                                         current_id, "below minimum"))
                ELSE IF current_node.node_type = "action"
                THEN robust_return(
                         TraversalResult(current_node.action,
                                         cumulative_confidence, current_id,
                                         "Action"))
                ELSE IF no_answer /\ has_fallback
                THEN robust_advance(current_node,
                                    current_node.fallback_node[1], 5)
                ELSE IF match.raised
                THEN robust_return(RobustRaised("re.error"))
                ELSE IF match.next_id # NoId
                THEN robust_advance(current_node, match.next_id,
                                    match.confidence)
                ELSE robust_return(
                         TraversalResult(None, cumulative_confidence,
                                         current_id, "Dead end"))

(***************************************************************************)
(* Robust trees as add_node, add_child and set_fallback make them, and the *)
(* answers passed.                                                         *)
(***************************************************************************)
\* A child or fallback id that is no node.
GhostId == 9

\* What add_child and set_fallback can have given a condition node: no edge
\* or the edge yes to an id, and no fallback or a fallback id.
RobustTargets == {1, 2, 3, GhostId}

RobustChildren == { <<>> } \cup { <<Item(S_yes, t)>> : t \in RobustTargets }

RobustFallbacks == { None } \cup { Some(t) : t \in RobustTargets }

\* Two condition nodes and an action node; the first node is the root.
RobustTrees ==
    { <<RobustNode(1, S_is_it_urgent, "condition", None, c1, f1),
        RobustNode(2, S_check_severity, "condition", None, c2, f2),
        RobustNode(3, S_log_only, "action", Some(S_log_only), <<>>, None)>> :
      c1 \in RobustChildren, f1 \in RobustFallbacks,
      c2 \in RobustChildren, f2 \in RobustFallbacks }

A_yes_yes ==
    Dict(<<Answer(S_is_it_urgent, S_yes), Answer(S_check_severity, S_yes)>>)
A_YES_YES ==
    Dict(<<Answer(S_is_it_urgent, S_YES), Answer(S_check_severity, S_YES)>>)

RobustAnswers == { A_yes_yes, A_YES_YES, A_yes, A_maybe, Dict(<<>>) }

InitRobust ==
    /\ nodes \in RobustTrees
    /\ root_id = 1
    /\ created_at = 0
    /\ updated_at = 0
    /\ now = 1
    /\ last = NoCall
    /\ TraverseIdle
    /\ MatchIdle
    /\ DefaultMeta
    /\ memo = None
    /\ RobustIdle
    /\ BesideIdle

\* A call of traverse_robust.
robust_call ==
    \E arg \in RobustAnswers :
        /\ traverse_robust(arg)
        /\ UNCHANGED <<matchVars, metaVars, memo, besideVars>>

\* The call runs on.
robust_step ==
    /\ traverse_robust_loop
    /\ UNCHANGED <<matchVars, metaVars, memo, besideVars>>

NextRobust == robust_call \/ robust_step

SpecRobust == InitRobust /\ [][NextRobust]_vars

\* The loop is not starved: a call that was made runs on.
FairSpecRobust == SpecRobust /\ WF_vars(robust_step)

\* C13: traverse_robust terminates and returns a TraversalResult for every
\* graph, including a graph whose child edges or fallback edges form a cycle.
C13_TraverseRobustReturns ==
    (pc = "loop") ~> (pc = "done" /\ traversal_result.returned)

(***************************************************************************)
(* DecisionTree.get_all_paths.                                             *)
(*                                                                         *)
(* A recursion deeper than the tree has nodes is on a cycle and never      *)
(* returns: it ends in Python's RecursionError.                            *)
(***************************************************************************)
\* The entries of a path: node.question, f"[{answer}]" and f"→ {node.action}".
QuestionEntry(question) == [kind |-> "question", text |-> question]
AnswerEntry(answer) == [kind |-> "answer", text |-> answer]
ActionEntry(action) == [kind |-> "action", text |-> action]

PathsResult(paths, error) == [paths |-> paths, error |-> error]

\* A child path that leaves the answer out.
child_path_without_answer(current_path, answer) == current_path

\* child_path = current_path + [f"[{answer}]"]
child_path(current_path, answer) == Append(current_path, AnswerEntry(answer))

RECURSIVE traverse_all(_, _, _, _)
RECURSIVE traverse_all_children(_, _, _, _, _, _)

\* traverse_all(node_id, current_path): the paths it appends to all_paths.
traverse_all(ns, node_id, current_path, fuel) ==
    IF fuel = 0
    THEN PathsResult(<<>>, "RecursionError")
    ELSE IF node_id \notin DOMAIN ns
    THEN PathsResult(<<>>, "KeyError")
    ELSE LET node == ns[node_id]
             path1 == Append(current_path, QuestionEntry(node.question))
         IN  IF node.node_type = "action"
             THEN PathsResult(<<Append(path1, ActionEntry(node.action))>>,
                              "none")
             ELSE traverse_all_children(ns, node.children, 1, path1,
                                        fuel - 1, <<>>)

\* The loop over node.children.items(), from item i on.
traverse_all_children(ns, children, i, current_path, fuel, all_paths) ==
    IF i > Len(children)
    THEN PathsResult(all_paths, "none")
    ELSE LET r == traverse_all(ns, children[i].child,
                               child_path(current_path, children[i].answer),
                               fuel)
         IN  IF r.error # "none"
             THEN PathsResult(<<>>, r.error)
             ELSE traverse_all_children(ns, children, i + 1, current_path,
                                        fuel, all_paths \o r.paths)

get_all_paths(ns, root) ==
    IF root = NoId
    THEN PathsResult(<<>>, "none")
    ELSE traverse_all(ns, root, <<>>, Cardinality(DOMAIN ns) + 1)

(***************************************************************************)
(* DecisionTree.validate_tree.  self.nodes is iterated in the order of the *)
(* ids.                                                                    *)
(***************************************************************************)
\* A marking that stops at the node it is called for.
mark_reachable_node_only(ns, node_id, reachable) ==
    reachable \cup ({node_id} \cap DOMAIN ns)

RECURSIVE mark_reachable(_, _, _)
RECURSIVE mark_reachable_children(_, _, _, _)

\* mark_reachable(node_id): the set reachable after the call.
mark_reachable(ns, node_id, reachable) ==
    IF node_id \in reachable \/ node_id \notin DOMAIN ns
    THEN reachable
    ELSE mark_reachable_children(ns, ns[node_id].children, 1,
                                 reachable \cup {node_id})

mark_reachable_children(ns, children, i, reachable) ==
    IF i > Len(children)
    THEN reachable
    ELSE mark_reachable_children(ns, children, i + 1,
             mark_reachable(ns, children[i].child, reachable))

\* The ids of a dict of nodes in its order.
RECURSIVE SortedIds(_)
SortedIds(S) ==
    IF S = {} THEN <<>> ELSE <<Min(S)>> \o SortedIds(S \ {Min(S)})

RECURSIVE Concat(_)
Concat(seqs) == IF seqs = <<>> THEN <<>> ELSE Head(seqs) \o Concat(Tail(seqs))

\* The issues about the root.
root_issues(ns, root) ==
    IF root = NoId
    THEN <<[kind |-> "No root node specified"]>>
    ELSE IF root \notin DOMAIN ns
    THEN <<[kind |-> "Root node not found", id |-> root]>>
    ELSE <<>>

\* The issue about orphaned nodes.
orphan_issues(ns, root) ==
    IF root # NoId /\ root \in DOMAIN ns
    THEN LET orphans == DOMAIN ns \ mark_reachable(ns, root, {})
         IN  IF orphans # {}
             THEN <<[kind |-> "Orphaned nodes found", ids |-> orphans]>>
             ELSE <<>>
    ELSE <<>>

\* The issues about children that are no nodes.
reference_issues(ns) ==
    LET ids == SortedIds(DOMAIN ns)
        of_node(n) ==
            LET children == ns[n].children
                bad == SelectSeq([i \in 1..Len(children) |-> i],
                           LAMBDA i : children[i].child \notin DOMAIN ns)
            IN  [j \in 1..Len(bad) |->
                    [kind |-> "references non-existent child", id |-> n,
                     child |-> children[bad[j]].child]]
    IN  Concat([k \in 1..Len(ids) |-> of_node(ids[k])])

\* A check that never finds an action node with children.
action_issues_skipped(ns) == <<>>

\* The issues about action nodes with children.
action_issues(ns) ==
    LET ids == SelectSeq(SortedIds(DOMAIN ns),
                   LAMBDA n : ns[n].node_type = "action"
                              /\ ns[n].children # <<>>)
    IN  [k \in 1..Len(ids) |->
            [kind |-> "Action node has children", id |-> ids[k]]]

validate_tree(ns, root) ==
    IF DOMAIN ns = {}
    THEN <<[kind |-> "Tree is empty"]>>
    ELSE root_issues(ns, root) \o orphan_issues(ns, root)
         \o reference_issues(ns) \o action_issues(ns)

(***************************************************************************)
(* DecisionTree.to_dict and DecisionTree.from_dict.  A dict with string    *)
(* keys is a function on strings.                                          *)
(***************************************************************************)
\* A conversion that leaves the children of a node out.
asdict_without_children(node) ==
    [k \in {"id", "question", "node_type", "action", "confidence",
            "metadata"} |-> node[k]]

\* dataclasses.asdict(node)
asdict(node) ==
    [k \in {"id", "question", "node_type", "children", "action",
            "confidence", "metadata"} |->
        CASE k = "id" -> node.id
          [] k = "question" -> node.question
          [] k = "node_type" -> node.node_type
          [] k = "children" -> [i \in 1..Len(node.children) |-> node.children[i]]
          [] k = "action" -> node.action
          [] k = "confidence" -> node.confidence
          [] k = "metadata" -> node.metadata]

\* The tree as an object: its attributes.
Tree(n, d, ns, root, created, updated) ==
    [name |-> n, description |-> d, nodes |-> ns, root_id |-> root,
     created_at |-> created, updated_at |-> updated]

to_dict(tree) ==
    [k \in {"name", "description", "root_id", "created_at", "updated_at",
            "nodes"} |->
        CASE k = "name" -> tree.name
          [] k = "description" -> tree.description
          [] k = "root_id" -> tree.root_id
          [] k = "created_at" -> tree.created_at
          [] k = "updated_at" -> tree.updated_at
          [] k = "nodes" -> [id \in DOMAIN tree.nodes |-> asdict(tree.nodes[id])]]

\* data.get(key, default)
get(data, key, default) == IF key \in DOMAIN data THEN data[key] ELSE default

\* DecisionNode(**node_data) for the dict of a node.
DecisionNodeOf(node_data) ==
    [id |-> node_data["id"],
     question |-> node_data["question"],
     node_type |-> get(node_data, "node_type", "condition"),
     children |-> get(node_data, "children", <<>>),
     action |-> get(node_data, "action", None),
     confidence |-> get(node_data, "confidence", None),
     metadata |-> get(node_data, "metadata", "{}")]

\* from_dict(data) when the clock shows t.
from_dict(data, t) ==
    LET node_dicts == get(data, "nodes", EmptyNodes)
    IN  Tree(get(data, "name", ""), get(data, "description", ""),
             [id \in DOMAIN node_dicts |-> DecisionNodeOf(node_dicts[id])],
             get(data, "root_id", NoId),
             get(data, "created_at", t + 1),
             get(data, "updated_at", t + 2))

(***************************************************************************)
(* DecisionTreeExporter.to_ascii.  A line is a record of its parts; the    *)
(* prefix is the sequence of the is_last flags that made it.               *)
(***************************************************************************)
ascii_depth_limit == 20
S_no_action == <<"N", "o", " ", "a", "c", "t", "i", "o", "n">>
first_occurrence_length == 30

\* text[:n] + ("..." if len(text) > n else "")
truncate(text, n) ==
    IF Len(text) > n THEN SubSeq(text, 1, n) \o <<".", ".", ".">> ELSE text

\* A test that never sees a node of the current path again.
on_current_path_never(node_id, visited_in_path) == FALSE

\* node_id in visited_in_path
on_current_path(node_id, visited_in_path) == node_id \in visited_in_path

\* A branch that stays on the recorded path when it is done.
leave_path_kept(visited_in_path, node_id) == visited_in_path

\* visited_in_path.remove(node_id)
leave_path(visited_in_path, node_id) == visited_in_path \ {node_id}

\* A ceiling that lets one more level through.
too_deep_one_later(d) == d > ascii_depth_limit + 1

\* depth > 20
too_deep(d) == d > ascii_depth_limit

RECURSIVE draw_node(_, _, _, _, _, _, _)
RECURSIVE draw_children(_, _, _, _, _, _)

\* draw_node: st holds lines, visited_in_path and node_first_occurrence.
draw_node(ns, st, node_id, prefix, is_last, parent_answer, d) ==
    IF node_id \notin DOMAIN ns
    THEN st
    ELSE IF on_current_path(node_id, st.visited_in_path)
    THEN [st EXCEPT !.lines = Append(@,
             IF node_id \in DOMAIN st.node_first_occurrence
             THEN [kind |-> "loops back to", prefix |-> prefix,
                   is_last |-> is_last, answer |-> parent_answer,
                   text |-> st.node_first_occurrence[node_id]]
             ELSE [kind |-> "cycles back to", prefix |-> prefix,
                   is_last |-> is_last, answer |-> parent_answer,
                   text |-> truncate(ns[node_id].question, 50)])]
    ELSE IF too_deep(d)
    THEN [st EXCEPT !.lines = Append(@,
             [kind |-> "max depth reached", prefix |-> prefix,
              is_last |-> is_last, answer |-> parent_answer])]
    ELSE LET node == ns[node_id]
             line == [kind |-> "node", prefix |-> prefix, is_last |-> is_last,
                      answer |-> parent_answer, text |-> node.question,
                      action |-> IF node.node_type # "action" THEN None
                                 ELSE IF node.action \in {None, Some(<<>>)}
                                 THEN Some(S_no_action)
                                 ELSE node.action]
             first == IF node_id \in DOMAIN st.node_first_occurrence
                      THEN st.node_first_occurrence
                      ELSE [n \in DOMAIN st.node_first_occurrence \cup {node_id} |->
                               IF n = node_id
                               THEN truncate(node.question, first_occurrence_length)
                               ELSE st.node_first_occurrence[n]]
             st1 == [lines |-> Append(st.lines, line),
                     visited_in_path |-> st.visited_in_path \cup {node_id},
                     node_first_occurrence |-> first]
             st2 == draw_children(ns, st1, node.children, 1,
                                  Append(prefix, is_last), d + 1)
         IN  [st2 EXCEPT !.visited_in_path = leave_path(@, node_id)]

\* The loop over children_items, from item i on.
draw_children(ns, st, children, i, prefix, d) ==
    IF i > Len(children)
    THEN st
    ELSE draw_children(ns,
             draw_node(ns, st, children[i].child, prefix, i = Len(children),
                       children[i].answer, d),
             children, i + 1, prefix, d)

\* to_ascii(tree): its lines, or the KeyError of a root that is no node, and
\* visited_in_path as the call leaves it.
to_ascii(tree) ==
    IF tree.root_id = NoId
    THEN [lines |-> <<[kind |-> "Empty Tree"]>>, error |-> "none",
          visited_in_path |-> {}]
    ELSE IF tree.root_id \notin DOMAIN tree.nodes
    THEN [lines |-> <<>>, error |-> "KeyError", visited_in_path |-> {}]
    ELSE LET root_node == tree.nodes[tree.root_id]
             head == <<[kind |-> "title", text |-> tree.name]>>
                     \o (IF tree.description # ""
                         THEN <<[kind |-> "description",
                                 text |-> tree.description]>>
                         ELSE <<>>)
                     \o <<[kind |-> "blank"],
                          [kind |-> "root", text |-> root_node.question]>>
             st == [lines |-> head, visited_in_path |-> {},
                    node_first_occurrence |->
                        [n \in {tree.root_id} |->
                            truncate(root_node.question,
                                     first_occurrence_length)]]
             final == draw_children(tree.nodes, st, root_node.children, 1,
                                    <<>>, 0)
             drawn == final.lines
             legend == IF \E i \in 1..Len(drawn) :
                              drawn[i].kind \in {"loops back to", "cycles back to"}
                       THEN <<[kind |-> "blank"], [kind |-> "legend"]>>
                       ELSE <<>>
         IN  [lines |-> drawn \o legend, error |-> "none",
              visited_in_path |-> final.visited_in_path]

(***************************************************************************)
(* The queries of a tree: get_all_paths, validate_tree, to_ascii and the   *)
(* round trip through to_dict and from_dict, on trees as add_node and      *)
(* add_child build them and as from_dict or an edit of nodes makes them,   *)
(* with add_child as the one change.                                       *)
(***************************************************************************)
\* The most recent call that changed the tree.
Mutation ==
    IF "mutation" \in DOMAIN last THEN last.mutation
    ELSE IF last.error = "none" THEN last
    ELSE NoCall

\* The tree as it is.
self == Tree(name, description, nodes, root_id, created_at, updated_at)

get_all_paths_call ==
    /\ last' = [op |-> "get_all_paths", ret |-> get_all_paths(nodes, root_id),
                mutation |-> Mutation]
    /\ UNCHANGED <<treeVars, now>>

validate_tree_call ==
    /\ last' = [op |-> "validate_tree", ret |-> validate_tree(nodes, root_id),
                mutation |-> Mutation]
    /\ UNCHANGED <<treeVars, now>>

to_ascii_call ==
    /\ last' = [op |-> "to_ascii", ret |-> to_ascii(self),
                mutation |-> Mutation]
    /\ UNCHANGED <<treeVars, now>>

\* from_dict(to_dict()), and to_dict() of the tree it returns; from_dict
\* reads the clock three times.
round_trip_call ==
    /\ now <= MaxTime
    /\ LET data == to_dict(self)
           tree == from_dict(data, now)
       IN  last' = [op |-> "from_dict", data |-> data, ret |-> tree,
                    again |-> to_dict(tree), mutation |-> Mutation]
    /\ now' = now + 3
    /\ UNCHANGED treeVars

\* Three nodes, the third an action node; the root has up to two edges, the
\* second node up to one, the third none or one back to the root.
QueryIds == {1, 2, 3}
QueryQuestion(n) ==
    IF n = 1 THEN S_is_it_urgent
    ELSE IF n = 2 THEN S_check_severity ELSE S_log_only

RootChildren ==
    { <<>> } \cup { <<Item(S_yes, c)>> : c \in QueryIds }
    \cup { <<Item(S_yes, c), Item(S_no, e)>> : c \in QueryIds, e \in QueryIds }

OtherChildren == { <<>> } \cup { <<Item(S_yes, c)>> : c \in QueryIds }

QueryNode(n, node_type, children) ==
    Node(n, QueryQuestion(n), node_type,
         IF node_type = "action" THEN Some(QueryQuestion(n)) ELSE None,
         children)

LastChildren == { <<>>, <<Item(S_yes, 1)>> }

QueryNodeSets ==
    { <<QueryNode(1, t1, c1), QueryNode(2, t2, c2), QueryNode(3, "action", c3)>> :
      t1 \in {"condition", "action"}, t2 \in {"condition", "action"},
      c1 \in RootChildren, c2 \in OtherChildren, c3 \in LastChildren }

\* A ring of n nodes through the root.
AsciiRing(n) ==
    [i \in 1..n |->
        Node(i, S_is_it_urgent, "condition", None,
             <<Item(S_yes, (i % n) + 1)>>)]

\* The longest ring the renderer follows to its end, and the next longer.
MarkedRing == AsciiRing(ascii_depth_limit + 1)
CutRing == AsciiRing(ascii_depth_limit + 2)

\* A chain of n nodes from the root.
AsciiChain(n) ==
    [i \in 1..n |->
        Node(i, S_is_it_urgent, "condition", None,
             IF i < n THEN <<Item(S_yes, i + 1)>> ELSE <<>>)]

\* A chain whose last node is one level below the last level drawn.
DeepChain == AsciiChain(ascii_depth_limit + 3)

QueryTrees ==
    { [nodes |-> ns, root_id |-> 1] : ns \in QueryNodeSets }
    \cup { [nodes |-> EmptyNodes, root_id |-> NoId],
           [nodes |-> SingleNodes, root_id |-> NoId],
           [nodes |-> SingleNodes, root_id |-> GhostId],
           [nodes |-> DanglingNodes, root_id |-> 1],
           [nodes |-> MarkedRing, root_id |-> 1],
           [nodes |-> CutRing, root_id |-> 1],
           [nodes |-> DeepChain, root_id |-> 1] }

InitQuery ==
    /\ \E t \in QueryTrees :
          /\ nodes = t.nodes
          /\ root_id = t.root_id
    /\ \E meta \in { <<"Decision Tree", "">>, <<"T", "d">> } :
          /\ name = meta[1]
          /\ description = meta[2]
    /\ created_at = 0
    /\ updated_at = MaxTime - 2
    /\ now = MaxTime - 1
    /\ last = NoCall
    /\ TraverseIdle
    /\ MatchIdle
    /\ memo = None
    /\ RobustIdle
    /\ BesideIdle

otherVars == <<traverseVars, matchVars, metaVars, memo, robustVars, besideVars>>

NextQuery ==
    \/ \E parent_id \in QueryIds, answer \in {S_yes, S_no}, child_id \in QueryIds :
           add_child(parent_id, answer, child_id) /\ UNCHANGED otherVars
    \/ get_all_paths_call /\ UNCHANGED otherVars
    \/ validate_tree_call /\ UNCHANGED otherVars
    \/ to_ascii_call /\ UNCHANGED otherVars
    \/ round_trip_call /\ UNCHANGED otherVars

SpecQuery == InitQuery /\ [][NextQuery]_vars

(***************************************************************************)
(* Properties of the queries.  The graph is described here by its edges,   *)
(* apart from the recursions of the code.                                  *)
(***************************************************************************)
\* An edge with its label: an item of the children of a node.
LabelledEdges(ns) ==
    UNION { { [node |-> n, i |-> i] : i \in 1..Len(ns[n].children) } :
            n \in DOMAIN ns }

Target(ns, e) == ns[e.node].children[e.i].child

NoDangling(ns) == \A e \in LabelledEdges(ns) : Target(ns, e) \in DOMAIN ns

HasCycle == \E n \in DOMAIN nodes : n \in Descendants(n)

\* The nodes a walk from the root meets.
ReachableIds == ({root_id} \cup Descendants(root_id)) \cap DOMAIN nodes

\* What add_node and add_child leave: the first node is the root, every
\* edge ends at a node, and no walk comes back to its start.
Built ==
    /\ NoDangling(nodes)
    /\ ~HasCycle
    /\ IF DOMAIN nodes = {} THEN root_id = NoId ELSE root_id \in DOMAIN nodes

\* The walks from the root, as sequences of edges.
IsWalk(ns, root, w) ==
    /\ w # <<>> => w[1].node = root
    /\ \A j \in 1..(Len(w) - 1) : Target(ns, w[j]) = w[j + 1].node

End(ns, root, w) == IF w = <<>> THEN root ELSE Target(ns, w[Len(w)])

RECURSIVE WalksUpTo(_, _, _)
\* The walks of at most k edges, each made from a shorter one by an edge
\* that leaves its end.
WalksUpTo(ns, root, k) ==
    IF k <= 0 THEN { <<>> }
    ELSE LET shorter == WalksUpTo(ns, root, k - 1)
         IN  shorter \cup
             { Append(w, e) :
                 <<w, e>> \in { x \in shorter \X LabelledEdges(ns) :
                                 /\ Len(x[1]) = k - 1
                                 /\ x[2].node = End(ns, root, x[1]) } }

Walks(ns, root) == WalksUpTo(ns, root, Cardinality(DOMAIN ns) - 1)

\* The questions and answer labels of a walk, then the question and the
\* action of its last node.
PathOf(ns, root, w) ==
    Concat([j \in 1..Len(w) |->
               <<QuestionEntry(ns[w[j].node].question),
                 AnswerEntry(ns[w[j].node].children[w[j].i].answer)>>])
    \o <<QuestionEntry(ns[End(ns, root, w)].question),
         ActionEntry(ns[End(ns, root, w)].action)>>

WalksToAction(ns, root) ==
    { w \in Walks(ns, root) : ns[End(ns, root, w)].node_type = "action" }

\* The walks whose last node is their only action node.
WalksToFirstAction(ns, root) ==
    { w \in WalksToAction(ns, root) :
        \A j \in 1..Len(w) : ns[w[j].node].node_type # "action" }

\* get_all_paths returned one path for each of the walks W, and no other.
PathsAre(W) ==
    /\ last.ret.error = "none"
    /\ \A i, j \in 1..Len(last.ret.paths) :
          last.ret.paths[i] = last.ret.paths[j] => i = j
    /\ { last.ret.paths[i] : i \in 1..Len(last.ret.paths) }
       = { PathOf(nodes, root_id, w) : w \in W }

\* C15 as stated: for a graph built through add_node and add_child,
\* get_all_paths returns exactly one path for each walk from the root to an
\* action node, the path of that walk.
C15_OnePathPerWalkToAction ==
    (last.op = "get_all_paths" /\ Built /\ root_id # NoId)
        => PathsAre(WalksToAction(nodes, root_id))

\* C15: for a graph built through add_node and add_child, get_all_paths
\* returns without error exactly one path for each walk from the root whose
\* last node is its first action node: the questions and answer labels of
\* the walk in order, then the action; a walk that goes on through an action
\* node, or ends at a condition node, gives no path.
C15_OnePathPerWalkToFirstAction ==
    (last.op = "get_all_paths" /\ Built)
        => PathsAre(IF root_id = NoId THEN {}
                    ELSE WalksToFirstAction(nodes, root_id))

\* get_all_paths returned two paths that end at the same action node, in a
\* built graph that also has a condition node without children.
C15_Witness ==
    /\ last.op = "get_all_paths"
    /\ Built
    /\ \E i, j \in 1..Len(last.ret.paths) :
          /\ i # j
          /\ last.ret.paths[i][Len(last.ret.paths[i])]
             = last.ret.paths[j][Len(last.ret.paths[j])]
    /\ \E n \in ReachableIds :
          nodes[n].node_type = "condition" /\ nodes[n].children = <<>>

\* The ids validate_tree named as orphaned.
ReportedOrphans(issues) ==
    UNION { issues[i].ids :
            i \in { k \in 1..Len(issues) : issues[k].kind = "Orphaned nodes found" } }

\* The last change of the tree was an accepted add_child.
Linked == Mutation.op = "add_child" /\ Mutation.error = "none"

\* C16 as stated: validate_tree reports as orphaned exactly the nodes that
\* no walk from root_id meets.
C16_OrphansAreUnreachable ==
    last.op = "validate_tree"
        => ReportedOrphans(last.ret) = DOMAIN nodes \ ReachableIds

\* C16: when root_id names a node of the tree, validate_tree reports as
\* orphaned exactly the nodes that no walk from the root meets, so a node
\* that add_child has linked from a reachable node is not named; when
\* root_id is None or names no node, validate_tree reports that about the
\* root and names no orphan, although no node is reachable.
C16_OrphansAreUnreachableFromExistingRoot ==
    last.op = "validate_tree"
        => /\ ReportedOrphans(last.ret)
              = IF root_id \in DOMAIN nodes
                THEN DOMAIN nodes \ ReachableIds
                ELSE {}
           /\ (Linked /\ Mutation.parent \in ReachableIds)
                 => Mutation.child \notin ReportedOrphans(last.ret)
           /\ (DOMAIN nodes # {} /\ root_id \notin DOMAIN nodes)
                 => \E i \in 1..Len(last.ret) :
                       last.ret[i].kind \in {"No root node specified",
                                             "Root node not found"}

\* validate_tree ran after add_child gave a node its only incoming edge, from
\* a reachable node: the node is not named, and another node still is.
C16_Witness ==
    /\ last.op = "validate_tree"
    /\ Linked
    /\ Mutation.parent \in ReachableIds
    /\ Mutation.child # root_id
    /\ \A e \in LabelledEdges(nodes) :
          Target(nodes, e) = Mutation.child => e.node = Mutation.parent
    /\ Cardinality({ e \in LabelledEdges(nodes) :
                       Target(nodes, e) = Mutation.child }) = 1
    /\ Mutation.child \notin ReportedOrphans(last.ret)
    /\ ReportedOrphans(last.ret) # {}

\* validate_tree named node n as an action node with children.
FlaggedAction(issues, n) ==
    \E i \in 1..Len(issues) :
        issues[i].kind = "Action node has children" /\ issues[i].id = n

ActionNodesWithChildren ==
    { n \in DOMAIN nodes :
        nodes[n].node_type = "action" /\ nodes[n].children # <<>> }

\* A step is an add_child call with an action node as parent and nothing
\* else to reject: both nodes exist, the answer is not blank, no cycle.
AddChildToAction ==
    /\ last'.op = "add_child"
    /\ last' # last
    /\ last'.parent \in DOMAIN nodes
    /\ nodes[last'.parent].node_type = "action"
    /\ last'.child \in DOMAIN nodes
    /\ strip(last'.answer) # <<>>
    /\ last'.parent # last'.child
    /\ last'.parent \notin Descendants(last'.child)

\* C17: add_child accepts an action node as parent and stores the edge;
\* validate_tree returns an issue for every action node that has children;
\* and for a graph in which no action node has children, every node is
\* reachable from an existing root and every edge ends at a node,
\* validate_tree returns the empty list.
C17_ActionParentAcceptedThenFlagged ==
    /\ [][AddChildToAction
            => /\ last'.error = "none"
               /\ \E i \in 1..Len(nodes'[last'.parent].children) :
                     nodes'[last'.parent].children[i]
                        = Item(strip(last'.answer), last'.child)]_vars
    /\ [](last.op = "validate_tree"
            => /\ \A n \in ActionNodesWithChildren : FlaggedAction(last.ret, n)
               /\ (/\ ActionNodesWithChildren = {}
                   /\ root_id \in DOMAIN nodes
                   /\ ReachableIds = DOMAIN nodes
                   /\ NoDangling(nodes))
                     => last.ret = <<>>)

\* validate_tree ran after add_child had given an action node its first
\* child, and named that node.
C17_Witness ==
    /\ last.op = "validate_tree"
    /\ Linked
    /\ nodes[Mutation.parent].node_type = "action"
    /\ ~Mutation.replaced
    /\ Len(nodes[Mutation.parent].children) = 1
    /\ FlaggedAction(last.ret, Mutation.parent)

\* C18: for any graph that contains a directed cycle of child edges,
\* validate_tree returns at least one issue.
C18_CycleIsReported ==
    (last.op = "validate_tree" /\ HasCycle) => last.ret # <<>>

\* C19: for every graph built through add_node and add_child,
\* from_dict(to_dict(g)) has the node ids of g, for every node the question,
\* node type, action and children of g, and the root_id, name and
\* description of g; to_dict of the tree it returns is the dictionary again.
C19_RoundTrip ==
    (last.op = "from_dict" /\ Built)
        => /\ DOMAIN last.ret.nodes = DOMAIN nodes
           /\ \A id \in DOMAIN nodes :
                 /\ last.ret.nodes[id].id = id
                 /\ last.ret.nodes[id].question = nodes[id].question
                 /\ last.ret.nodes[id].node_type = nodes[id].node_type
                 /\ last.ret.nodes[id].action = nodes[id].action
                 /\ last.ret.nodes[id].children = nodes[id].children
           /\ last.ret.root_id = root_id
           /\ last.ret.name = name
           /\ last.ret.description = description
           /\ last.again = last.data

\* A tree with a name and a description of its own, an action node and a
\* node with two children went through to_dict and from_dict after an
\* add_child.
C19_Witness ==
    /\ last.op = "from_dict"
    /\ Built
    /\ Linked
    /\ name = "T"
    /\ description = "d"
    /\ \E n \in DOMAIN nodes : Len(nodes[n].children) = 2
    /\ \E n \in DOMAIN nodes : nodes[n].action # None
    /\ last.ret.nodes = nodes

\* A walk from the root comes back to a node it has met.
CycleReachable == \E n \in ReachableIds : n \in Descendants(n)

HasLine(kind) ==
    \E i \in 1..Len(last.ret.lines) : last.ret.lines[i].kind = kind

\* C20 as stated: for any graph with a cycle reachable from the root,
\* to_ascii returns and its output contains a 'loops back to' line.
C20_CycleIsMarked ==
    (last.op = "to_ascii" /\ CycleReachable)
        => (last.ret.error = "none" /\ HasLine("loops back to"))

\* C20: for any graph with a cycle reachable from the root, to_ascii returns
\* and its output contains a 'loops back to' line or a 'max depth reached'
\* line; a 'loops back to' line names a node of the graph by the first 30
\* characters of its question; and when the graph has at most 21 nodes the
\* output contains a 'loops back to' line.
C20_CycleIsMarkedOrCut ==
    (last.op = "to_ascii" /\ CycleReachable)
        => /\ last.ret.error = "none"
           /\ HasLine("loops back to") \/ HasLine("max depth reached")
           /\ \A i \in 1..Len(last.ret.lines) :
                 last.ret.lines[i].kind = "loops back to"
                    => \E n \in ReachableIds :
                          last.ret.lines[i].text
                             = truncate(nodes[n].question, first_occurrence_length)
           /\ Cardinality(DOMAIN nodes) <= ascii_depth_limit + 1
                 => HasLine("loops back to")

\* to_ascii drew a ring of 21 nodes through the root to its end: one line
\* for every node, the root again, and the 'loops back to' line.
C20_Witness ==
    /\ last.op = "to_ascii"
    /\ CycleReachable
    /\ Cardinality(DOMAIN nodes) = ascii_depth_limit + 1
    /\ HasLine("loops back to")
    /\ ~HasLine("max depth reached")
    /\ Cardinality({ i \in 1..Len(last.ret.lines) :
                       last.ret.lines[i].kind = "node" })
       = ascii_depth_limit + 1

\* C21: for any graph obtained by from_dict or direct edits, root_id
\* possibly naming no node, to_ascii returns its lines and raises no
\* exception.
C21_ToAsciiNeverRaises ==
    last.op = "to_ascii" => last.ret.error = "none"

\* The lines of draw_node, and the depth draw_node was called with for a
\* line: the length of its prefix.
DrawnLines ==
    { i \in 1..Len(last.ret.lines) : "prefix" \in DOMAIN last.ret.lines[i] }

DepthOf(i) == Len(last.ret.lines[i].prefix)

WalksToNodes ==
    { w \in Walks(nodes, root_id) :
        w # <<>> /\ End(nodes, root_id, w) \in DOMAIN nodes }

\* An acyclic graph with an existing root, small enough to stay within the
\* depth ceiling.
AcyclicWithinCeiling ==
    /\ root_id \in DOMAIN nodes
    /\ ~HasCycle
    /\ Cardinality(DOMAIN nodes) <= ascii_depth_limit + 1

NoLabelMatches(node, answer) ==
    \A i \in 1..Len(node.children) :
        LET label == node.children[i].answer
        IN  /\ label # answer
            /\ lower(label) # lower(answer)
            /\ IF startswith(label, S_regex_prefix)
               THEN /\ re_valid(SubSeq(label, 7, Len(label)))
                    /\ ~re_match(SubSeq(label, 7, Len(label)), answer)
               ELSE /\ ~contains(lower(label), lower(answer))
                    /\ ~contains(lower(answer), lower(label))

HasFallback(node) == node.fallback_node \notin {None, Some(NoId)}

\* The loop is at a condition node with a fallback, and the answer to its
\* question is missing or matches no label.
AtUnmatchedWithFallback ==
    /\ pc = "loop"
    /\ current_id \in DOMAIN nodes
    /\ nodes[current_id].node_type # "action"
    /\ HasFallback(nodes[current_id])
    /\ \/ ~answers_has(answers.items, nodes[current_id].question)
       \/ NoLabelMatches(nodes[current_id],
              answers_get(answers.items, nodes[current_id].question))

\* The loop is at an action node.
AtActionNode ==
    /\ pc = "loop"
    /\ current_id \in DOMAIN nodes
    /\ nodes[current_id].node_type = "action"

cliOtherVars ==
    <<traverseVars, matchVars, memo, robustVars, eventVars, daemonVars>>

\* The projects ProjectContext knows; detect_current_project falls back to
\* "general".
KnownProjects == {"general"}

\* tree_name.lower().replace(" ", "_").replace("/", "_") for the names used.
clean_name(tree_name) ==
    CASE tree_name = "T" -> "t"
      [] tree_name = "My Tree" -> "my_tree"
      [] OTHER -> tree_name

\* ext_map.get(format_type, ".json")
ext_of(format_type) ==
    CASE format_type = "json" -> ".json"
      [] format_type = "yaml" -> ".yaml"
      [] format_type = "yml" -> ".yaml"
      [] format_type = "mermaid" -> ".mmd"
      [] format_type = "dot" -> ".dot"
      [] format_type = "ascii" -> ".txt"
      [] OTHER -> ".json"

\* get_tree_path(project_name, tree_name, format_type) for a known project.
get_tree_path(project_name, tree_name, format_type) ==
    [dir |-> project_name, stem |-> clean_name(tree_name),
     ext |-> ext_of(format_type)]

\* A path the caller names.
ExplicitPath == [dir |-> ".", stem |-> "out", ext |-> ".txt"]

\* The object of the current tree after a change of its attributes.
StoreCurrent ==
    trees' = [trees EXCEPT ![current_tree] =
                 Tree(name, description, nodes', root_id', created_at',
                      updated_at')]

\* The attributes of tree become those of the current tree.
ViewOf(tree) ==
    /\ nodes' = tree.nodes
    /\ root_id' = tree.root_id
    /\ created_at' = tree.created_at
    /\ updated_at' = tree.updated_at
    /\ name' = tree.name
    /\ description' = tree.description

\* An assignment that forgets the trees held before.
PutTree_alone(tree_id, tree) == trees' = [id \in {tree_id} |-> tree]

\* trees[tree_id] = tree
PutTree(tree_id, tree) ==
    trees' = [id \in DOMAIN trees \cup {tree_id} |->
                 IF id = tree_id THEN tree ELSE trees[id]]

CliReturned(op, result) == [op |-> op, raised |-> FALSE, result |-> result]
CliRaised(op, error) == [op |-> op, raised |-> TRUE, result |-> error]
\* An answer that names a tree id.
CliNamed(op, result, tree_id) ==
    [op |-> op, raised |-> FALSE, result |-> result, tree_id |-> tree_id]

\* A command that only answers.
Reply(op, result) ==
    /\ cli_last' = CliReturned(op, result)
    /\ UNCHANGED <<treeVars, now, last, metaVars, trees, current_tree,
                   project_ctx, current_project, files>>

NoActiveTree(op) == Reply(op, "No active tree. Create one first.")

\* tree_id is the value of str(uuid.uuid4())[:8].
create_tree(tree_id, n, d) ==
    /\ now < MaxTime
    /\ ViewOf(Tree(n, d, EmptyNodes, NoId, now, now))
    /\ now' = now + 1
    /\ PutTree(tree_id, Tree(n, d, EmptyNodes, NoId, now, now))
    /\ current_tree' = tree_id
    /\ cli_last' = CliNamed("create_tree", "Created tree", tree_id)
    /\ UNCHANGED <<last, project_ctx, current_project, files>>

\* add_node_cmd(question, node_type, action); node_id is the id add_node
\* draws.
add_node_cmd(node_id, question, node_type, action) ==
    IF current_tree = NoId
    THEN NoActiveTree("add_node_cmd")
    ELSE /\ add_node(node_id, [question |-> question, node_type |-> node_type,
                               action |-> action, confidence |-> None,
                               metadata |-> None])
         /\ StoreCurrent
         /\ cli_last' = IF last'.error # "none"
                        THEN CliRaised("add_node_cmd", "ValueError")
                        ELSE CliReturned("add_node_cmd", "Added node")
         /\ UNCHANGED <<metaVars, current_tree, project_ctx, current_project,
                        files>>

link_nodes(parent_id, answer, child_id) ==
    IF current_tree = NoId
    THEN NoActiveTree("link_nodes")
    ELSE /\ add_child(parent_id, answer, child_id)
         /\ StoreCurrent
         /\ cli_last' = IF last'.error # "none"
                        THEN CliRaised("link_nodes", "ValueError")
                        ELSE CliReturned("link_nodes", "Linked")
         /\ UNCHANGED <<metaVars, current_tree, project_ctx, current_project,
                        files>>

\* traverse_tree(answers_json): json.loads raises JSONDecodeError when the
\* text is no JSON; traverse returns an action and a path for any value.
traverse_tree(is_json) ==
    IF current_tree = NoId
    THEN NoActiveTree("traverse_tree")
    ELSE IF ~is_json
    THEN Reply("traverse_tree", "Invalid JSON format for answers")
    ELSE Reply("traverse_tree", "Action and path")

SupportedFormats == {"json", "yaml", "mermaid", "dot", "ascii"}

\* What the exporter of a format returns for the current tree, or the error
\* it raises.
rendered(format_type) ==
    IF format_type = "ascii"
    THEN [format |-> "ascii", error |-> to_ascii(self).error,
          text |-> to_ascii(self).lines]
    ELSE IF format_type \in {"mermaid", "dot"} /\ root_id = NoId
    THEN [format |-> format_type, error |-> "none", text |-> "Empty Tree"]
    ELSE [format |-> format_type, error |-> "none", text |-> to_dict(self)]

\* Whether the exporter of a format writes the file it is given.
writes_file(format_type) ==
    ~(format_type \in {"mermaid", "dot"} /\ root_id = NoId)

\* The path export_tree hands to the exporter: the caller's, or the one of
\* the project; an unknown project is a ValueError of get_project_dir.
export_path(format_type, filepath, project_name) ==
    IF project_ctx /\ filepath = None /\ project_name # None
    THEN IF project_name[1] \in KnownProjects
         THEN [error |-> "none",
               path |-> Some(get_tree_path(project_name[1], name, format_type))]
         ELSE [error |-> "ValueError", path |-> None]
    ELSE IF project_ctx /\ filepath = None /\ current_project # None
    THEN [error |-> "none",
          path |-> Some(get_tree_path(current_project[1], name, format_type))]
    ELSE [error |-> "none", path |-> filepath]

WriteFile(filepath, content) ==
    files' = [p \in DOMAIN files \cup {filepath} |->
                 IF p = filepath THEN content ELSE files[p]]

export_tree(format_type, filepath, project_name) ==
    LET target == export_path(format_type, filepath, project_name)
        out == rendered(format_type)
        op == "export_tree"
        rest == <<treeVars, now, last, metaVars, trees, current_tree,
                  project_ctx, current_project>>
    IN  IF current_tree = NoId
        THEN NoActiveTree(op)
        ELSE IF target.error # "none"
        THEN /\ cli_last' = CliRaised(op, target.error)
             /\ UNCHANGED <<rest, files>>
        ELSE IF format_type \notin SupportedFormats
        THEN /\ cli_last' = CliReturned(op, "Unsupported format")
             /\ UNCHANGED <<rest, files>>
        ELSE IF out.error # "none"
        THEN /\ cli_last' = CliRaised(op, out.error)
             /\ UNCHANGED <<rest, files>>
        ELSE IF target.path # None
        THEN /\ IF writes_file(format_type) /\ target.path[1].ext = ".json"
                THEN WriteFile(target.path[1], out)
                ELSE UNCHANGED files
             /\ cli_last' = [op |-> op, raised |-> FALSE,
                             result |-> "Exported to", format |-> format_type,
                             filepath |-> filepath,
                             project_name |-> project_name,
                             written |-> target.path[1]]
             /\ UNCHANGED rest
        ELSE /\ cli_last' = [op |-> op, raised |-> FALSE,
                             result |-> "rendered", format |-> format_type,
                             filepath |-> filepath,
                             project_name |-> project_name,
                             text |-> out.text]
             /\ UNCHANGED <<rest, files>>

list_trees == Reply("list_trees", "listing")

switch_tree(tree_id) ==
    IF tree_id \in DOMAIN trees
    THEN /\ current_tree' = tree_id
         /\ ViewOf(trees[tree_id])
         /\ cli_last' = CliNamed("switch_tree", "Switched to tree", tree_id)
         /\ UNCHANGED <<now, last, trees, project_ctx, current_project, files>>
    ELSE /\ cli_last' = CliNamed("switch_tree", "Tree not found", tree_id)
         /\ UNCHANGED <<treeVars, now, last, metaVars, trees, current_tree,
                        project_ctx, current_project, files>>

validate_current_tree ==
    IF current_tree = NoId
    THEN NoActiveTree("validate_current_tree")
    ELSE Reply("validate_current_tree",
                IF validate_tree(nodes, root_id) = <<>>
                THEN "is healthy" ELSE "has issues")

\* The node load_tree builds from the dict of a saved node.
LoadedNode(node_id, node_data) ==
    [DecisionNode(node_id, node_data["question"],
                  get(node_data, "node_type", "condition"),
                  get(node_data, "action", None), None, None)
     EXCEPT !.children = get(node_data, "children", <<>>)]

\* The tree load_tree builds from a saved dict when the clock shows t.
LoadedTree(tree_data, t) ==
    Tree(tree_data["name"], get(tree_data, "description", ""),
         [id \in DOMAIN tree_data["nodes"] |->
             LoadedNode(id, tree_data["nodes"][id])],
         get(tree_data, "root_id", NoId), t, t)

\* load_tree(tree_name, project_name); tree_id is the id it draws.
load_tree(tree_id, tree_name, project_name) ==
    LET op == "load_tree"
        project == IF project_name # None THEN project_name ELSE current_project
        tree_path == get_tree_path(project[1], tree_name, "json")
        rest == <<treeVars, now, last, metaVars, trees, current_tree,
                  project_ctx, current_project, files>>
    IN  IF ~project_ctx
        THEN Reply(op, "Project context not available")
        ELSE IF project = None
        THEN Reply(op, "No project specified")
        ELSE IF project[1] \notin KnownProjects
        THEN /\ cli_last' = CliRaised(op, "ValueError")
             /\ UNCHANGED rest
        ELSE IF tree_path \notin DOMAIN files
        THEN Reply(op, "Tree not found in project")
        ELSE /\ now < MaxTime
             /\ ViewOf(LoadedTree(files[tree_path].text, now))
             /\ now' = now + 1
             /\ PutTree(tree_id, LoadedTree(files[tree_path].text, now))
             /\ current_tree' = tree_id
             /\ cli_last' = CliNamed(op, "Loaded tree", tree_id)
             /\ UNCHANGED <<last, project_ctx, current_project, files>>

\* DecisionTreeCLI(): the ImportError of the project context leaves
\* project_ctx None.
CliConstructed ==
    /\ trees = <<>>
    /\ current_tree = NoId
    /\ project_ctx \in BOOLEAN
    /\ current_project = IF project_ctx THEN Some("general") ELSE None

\* The changes of trees one run of the commands makes.
CliSteps == 4

InitCLI ==
    /\ nodes = EmptyNodes
    /\ root_id = NoId
    /\ created_at = 0
    /\ updated_at = 0
    /\ now = MaxTime - CliSteps
    /\ last = NoCall
    /\ TraverseIdle
    /\ MatchIdle
    /\ DefaultMeta
    /\ memo = None
    /\ RobustIdle
    /\ CliConstructed
    /\ EventIdle
    /\ DaemonIdle
    /\ files = <<>>
    /\ cli_last = NoCommand

TreeIds == {1, 2}
CliNodeIds == {1, 2}
TreeNames == {"T"}
CliQuestions == {S_Go, <<" ">>}
CliNodeTypes == {"condition", "bogus"}
CliFormats == {"ascii", "json", "mermaid", "xml"}
CliProjects == {None, Some("general"), Some("nowhere")}
\* export_tree(format_type, filepath, project_name)
ExportInputs ==
    { <<f, None, None>> : f \in CliFormats }
    \cup { <<"ascii", Some(ExplicitPath), None>>,
           <<"json", None, Some("general")>>,
           <<"json", None, Some("nowhere")>> }

NextCLI ==
    \/ \E tree_id \in TreeIds, n \in TreeNames :
           create_tree(tree_id, n, "") /\ UNCHANGED cliOtherVars
    \/ \E node_id \in CliNodeIds, question \in CliQuestions,
          node_type \in CliNodeTypes :
           add_node_cmd(node_id, question, node_type, None)
           /\ UNCHANGED cliOtherVars
    \/ \E parent_id \in CliNodeIds \cup {GhostId}, child_id \in CliNodeIds :
           link_nodes(parent_id, S_yes, child_id) /\ UNCHANGED cliOtherVars
    \/ \E is_json \in BOOLEAN : traverse_tree(is_json) /\ UNCHANGED cliOtherVars
    \/ \E args \in ExportInputs :
           export_tree(args[1], args[2], args[3]) /\ UNCHANGED cliOtherVars
    \/ list_trees /\ UNCHANGED cliOtherVars
    \/ \E tree_id \in TreeIds \cup {GhostId} :
           switch_tree(tree_id) /\ UNCHANGED cliOtherVars
    \/ validate_current_tree /\ UNCHANGED cliOtherVars
    \/ \E tree_id \in TreeIds, tree_name \in TreeNames,
          project_name \in CliProjects :
           load_tree(tree_id, tree_name, project_name) /\ UNCHANGED cliOtherVars

SpecCLI == InitCLI /\ [][NextCLI]_vars

(***************************************************************************)
(* main: one invocation of the command line.  It constructs its own        *)
(* DecisionTreeCLI, runs one command on it and prints the answer; the      *)
(* object ends with the process, the files stay.                           *)
(***************************************************************************)
\* The object DecisionTreeCLI() returns.
CliFresh == trees = <<>> /\ current_tree = NoId

NoArgs ==
    [command |-> "", name |-> None, question |-> None, parent |-> None,
     child |-> None, answer |-> None, answers |-> None, format |-> None,
     file |-> None, tree_id |-> None, project |-> None]

MissingArgument(command) == Reply("main", "Error: argument required")

main(args, drawn_id) ==
    /\ CliFresh
    /\ CASE args.command = "create" ->
                IF args.name = None
                THEN MissingArgument("create")
                ELSE create_tree(drawn_id, args.name[1], "")
         [] args.command = "add" ->
                IF args.question = None
                THEN MissingArgument("add")
                ELSE add_node_cmd(drawn_id, args.question[1], "condition", None)
         [] args.command = "link" ->
                IF args.parent = None \/ args.child = None \/ args.answer = None
                THEN MissingArgument("link")
                ELSE link_nodes(args.parent[1], args.answer[1], args.child[1])
         [] args.command = "traverse" ->
                IF args.answers = None
                THEN MissingArgument("traverse")
                ELSE traverse_tree(args.answers[1])
         [] args.command = "export" ->
                IF args.format = None
                THEN MissingArgument("export")
                ELSE export_tree(args.format[1], args.file, args.project)
         [] args.command = "list" -> list_trees
         [] args.command = "load" ->
                IF args.name = None
                THEN MissingArgument("load")
                ELSE load_tree(drawn_id, args.name[1], args.project)
         [] args.command = "switch" ->
                IF args.tree_id = None
                THEN MissingArgument("switch")
                ELSE switch_tree(args.tree_id[1])
         [] args.command = "validate" -> validate_current_tree

\* The process of an invocation ends, and its object with it.
ProcessExit ==
    /\ ~CliFresh
    /\ trees' = <<>>
    /\ current_tree' = NoId
    /\ nodes' = EmptyNodes
    /\ root_id' = NoId
    /\ created_at' = 0
    /\ updated_at' = 0
    /\ name' = "Decision Tree"
    /\ description' = ""
    /\ last' = NoCall
    /\ UNCHANGED <<now, project_ctx, current_project, files, cli_last>>

\* A tree an earlier run saved in the project.
SavedNodes == (1 :> Node(1, S_Go, "condition", None, <<>>))
SavedTree == Tree("T", "", SavedNodes, 1, 0, 0)
SavedFiles ==
    (get_tree_path("general", "T", "json") :>
        [format |-> "json", error |-> "none", text |-> to_dict(SavedTree)])

InitMain ==
    /\ nodes = EmptyNodes
    /\ root_id = NoId
    /\ created_at = 0
    /\ updated_at = 0
    /\ now = 1
    /\ last = NoCall
    /\ TraverseIdle
    /\ MatchIdle
    /\ DefaultMeta
    /\ memo = None
    /\ RobustIdle
    /\ CliConstructed
    /\ EventIdle
    /\ DaemonIdle
    /\ files \in {<<>>, SavedFiles}
    /\ cli_last = NoCommand

MainArgs ==
    { [NoArgs EXCEPT !.command = c] :
          c \in {"create", "add", "link", "traverse", "export", "list", "load",
                 "switch", "validate"} }
    \cup { [NoArgs EXCEPT !.command = "create", !.name = Some("T")],
           [NoArgs EXCEPT !.command = "add", !.question = Some(S_Go)],
           [NoArgs EXCEPT !.command = "link", !.parent = Some(1),
                          !.child = Some(2), !.answer = Some(S_yes)],
           [NoArgs EXCEPT !.command = "traverse", !.answers = Some(TRUE)],
           [NoArgs EXCEPT !.command = "switch", !.tree_id = Some(1)] }
    \cup { [NoArgs EXCEPT !.command = "export", !.format = Some(f)] :
              f \in {"ascii", "json"} }
    \cup { [NoArgs EXCEPT !.command = "load", !.name = Some("T"),
                          !.project = p] : p \in CliProjects }

NextMain ==
    \/ \E args \in MainArgs, drawn_id \in TreeIds :
           main(args, drawn_id) /\ UNCHANGED cliOtherVars
    \/ ProcessExit /\ UNCHANGED cliOtherVars

SpecMain == InitMain /\ [][NextMain]_vars

(***************************************************************************)
(* Properties of the commands.                                             *)
(***************************************************************************)
\* C22: no command of the CLI raises; each answers with a string.
C22_CommandsNeverRaise == ~cli_last.raised

\* C23: export_tree(format) without a file path and without a project name
\* returns the rendered text of the current tree, with or without a project
\* context.
ExportedWithoutPath ==
    /\ cli_last.op = "export_tree"
    /\ cli_last.result \in {"Exported to", "rendered"}
    /\ cli_last.filepath = None
    /\ cli_last.project_name = None

C23_ExportWithoutPathReturnsText ==
    ExportedWithoutPath => cli_last.result = "rendered"

\* C24: an invocation of add, link, traverse, export or validate that
\* follows the invocation that created or loaded a tree finds that tree
\* current.
C24_NextInvocationHasCurrentTree ==
    [][(/\ cli_last.result \in {"Created tree", "Loaded tree"}
        /\ cli_last'.op \in {"add_node_cmd", "link_nodes", "traverse_tree",
                             "export_tree", "validate_current_tree"})
       => cli_last'.result # "No active tree. Create one first."]_vars

\* C29: current_tree is None or the id of a tree in trees; create_tree and a
\* load_tree that succeeds make the new tree current; switch_tree with an
\* unknown id leaves current_tree as it was; no id ever leaves trees.
CurrentTreeIsHeld == current_tree = NoId \/ current_tree \in DOMAIN trees

MadeCurrent ==
    cli_last'.result \in {"Created tree", "Loaded tree"}
    => /\ current_tree' = cli_last'.tree_id
       /\ current_tree' \in DOMAIN trees'
       /\ trees'[current_tree'] = Tree(name', description', nodes', root_id',
                                       created_at', updated_at')
       /\ created_at' = now

UnknownSwitchKeepsCurrent ==
    cli_last'.result = "Tree not found"
    => /\ cli_last'.tree_id \notin DOMAIN trees
       /\ current_tree' = current_tree

NoTreeRemoved == DOMAIN trees \subseteq DOMAIN trees'

max_memory_events == 2
\* Most lines the log file gets.
MaxLog == 4

\* Event(timestamp, path, event_type): __post_init__ fills unique_id.
Event(timestamp, event_path, event_type) ==
    [timestamp |-> timestamp, path |-> event_path, event_type |-> event_type,
     unique_id |-> <<timestamp, event_path, event_type>>, tags |-> <<>>,
     category |-> None]

\* Event.to_dict()
event_to_dict(event) ==
    [k \in {"timestamp", "path", "event_type", "unique_id", "tags",
            "category"} |->
        CASE k = "timestamp" -> event.timestamp
          [] k = "path" -> event.path
          [] k = "event_type" -> event.event_type
          [] k = "unique_id" -> event.unique_id
          [] k = "tags" -> event.tags
          [] k = "category" -> event.category]

\* The Event _load_recent_events builds from a line of the log.
event_of_dict(event_dict) ==
    [timestamp |-> event_dict["timestamp"], path |-> event_dict["path"],
     event_type |-> event_dict["event_type"],
     unique_id |-> event_dict["unique_id"], tags |-> event_dict["tags"],
     category |-> get(event_dict, "category", None)]

\* A cache that never evicts.
deque_append_unbounded(cache, event) == Append(cache, event)

\* deque(maxlen=max_memory_events).append(event)
deque_append(cache, event) ==
    IF Len(cache) < max_memory_events
    THEN Append(cache, event)
    ELSE Append(Tail(cache), event)

\* lines[-max_memory_events:] if len(lines) > max_memory_events else lines
recent_lines(lines) ==
    IF Len(lines) > max_memory_events
    THEN SubSeq(lines, Len(lines) - max_memory_events + 1, Len(lines))
    ELSE lines

\* EventStore.__init__ on the log as it is: the recent lines fill the cache.
load_recent_events ==
    /\ events' = [i \in 1..Len(recent_lines(disk_log)) |->
                     event_of_dict(recent_lines(disk_log)[i])]
    /\ UNCHANGED disk_log

\* add_event(event); written is whether open and write went through (an
\* exception of theirs is printed and dropped).
add_event(event, written) ==
    /\ Len(disk_log) < MaxLog
    /\ disk_log' = IF written
                   THEN Append(disk_log, event_to_dict(event))
                   ELSE disk_log
    /\ events' = deque_append(events, event)

EventInputs ==
    { Event(t, p, "file_change") : t \in {1, 2}, p \in {"a.md", "b.md"} }

storeOtherVars ==
    <<treeVars, callVars, traverseVars, matchVars, metaVars, memo, robustVars,
      cliVars, daemonVars>>

InitStore ==
    /\ nodes = EmptyNodes
    /\ root_id = NoId
    /\ created_at = 0
    /\ updated_at = 0
    /\ now = 1
    /\ last = NoCall
    /\ TraverseIdle
    /\ MatchIdle
    /\ DefaultMeta
    /\ memo = None
    /\ RobustIdle
    /\ CliIdle
    /\ EventIdle
    /\ DaemonIdle

NextStore ==
    \/ \E event \in EventInputs, written \in BOOLEAN :
           add_event(event, written) /\ UNCHANGED storeOtherVars
    \/ load_recent_events /\ UNCHANGED storeOtherVars

SpecStore == InitStore /\ [][NextStore]_vars

RECURSIVE IsSubsequence(_, _)
\* Whether the members of s stand in t in the order of s.
IsSubsequence(s, t) ==
    IF s = <<>> THEN TRUE
    ELSE IF t = <<>> THEN FALSE
    ELSE IF Head(s) = Head(t) THEN IsSubsequence(Tail(s), Tail(t))
    ELSE IsSubsequence(s, Tail(t))

CachedDicts == [i \in 1..Len(events) |-> event_to_dict(events[i])]

\* C27: every event in the memory cache is a line of the log, in the order
\* of the cache, and the log only grows at its end.
C27_CacheIsOnDisk ==
    /\ []IsSubsequence(CachedDicts, disk_log)
    /\ [][/\ Len(disk_log') >= Len(disk_log)
          /\ SubSeq(disk_log', 1, Len(disk_log)) = disk_log]_vars

(***************************************************************************)
(* Daemon: processes that call start or stop on one pidfile, a step per    *)
(* system call, and the daemon processes they fork.                        *)
(***************************************************************************)
\* Most daemon processes forked in a run.
MaxDaemons == 3

At(c, position) == caller' = [caller EXCEPT ![c].at = position]
AtWith(c, position, pid) ==
    caller' = [caller EXCEPT ![c] = [at |-> position, pid |-> pid]]

\* start: os.path.exists(self.pidfile)
start_exists(c) ==
    /\ caller[c].at = "idle"
    /\ At(c, IF pidfile # None THEN "start_open" ELSE "daemonize")
    /\ UNCHANGED <<pidfile, running, signalled, next_pid>>

\* start: open and read the pidfile; a file that is gone is an exception
\* that ends the call.
start_open(c) ==
    /\ caller[c].at = "start_open"
    /\ IF pidfile = None
       THEN AtWith(c, "idle", 0)
       ELSE AtWith(c, "start_kill", pidfile[1])
    /\ UNCHANGED <<pidfile, running, signalled, next_pid>>

\* start: os.kill(pid, 0); a live process ends the call with exit code 1.
start_kill(c) ==
    /\ caller[c].at = "start_kill"
    /\ IF caller[c].pid \in running
       THEN AtWith(c, "idle", 0)
       ELSE At(c, "start_remove")
    /\ UNCHANGED <<pidfile, running, signalled, next_pid>>

\* start: os.remove(self.pidfile) of the stale file; a file that is gone is
\* an exception that ends the call.
start_remove(c) ==
    /\ caller[c].at = "start_remove"
    /\ IF pidfile = None
       THEN AtWith(c, "idle", 0)
       ELSE At(c, "daemonize")
    /\ pidfile' = None
    /\ UNCHANGED <<running, signalled, next_pid>>

\* daemonize: the two forks; the grandchild is the daemon.
daemonize_fork(c) ==
    /\ caller[c].at = "daemonize"
    /\ next_pid <= MaxDaemons
    /\ running' = running \cup {next_pid}
    /\ next_pid' = next_pid + 1
    /\ AtWith(c, "write_pid", next_pid)
    /\ UNCHANGED <<pidfile, signalled>>

\* daemonize: the daemon writes its pid, then runs func.
daemonize_write(c) ==
    /\ caller[c].at = "write_pid"
    /\ pidfile' = Some(caller[c].pid)
    /\ AtWith(c, "idle", 0)
    /\ UNCHANGED <<running, signalled, next_pid>>

\* stop: os.path.exists(self.pidfile)
stop_exists(c) ==
    /\ caller[c].at = "idle"
    /\ At(c, IF pidfile = None THEN "idle" ELSE "stop_open")
    /\ UNCHANGED <<pidfile, running, signalled, next_pid>>

\* stop: open and read the pidfile.
stop_open(c) ==
    /\ caller[c].at = "stop_open"
    /\ IF pidfile = None
       THEN AtWith(c, "idle", 0)
       ELSE AtWith(c, "stop_kill", pidfile[1])
    /\ UNCHANGED <<pidfile, running, signalled, next_pid>>

\* stop: os.kill(pid, SIGTERM); OSError when there is no such process.
stop_kill(c) ==
    /\ caller[c].at = "stop_kill"
    /\ IF caller[c].pid \in running
       THEN /\ signalled' = signalled \cup {caller[c].pid}
            /\ At(c, "stop_wait")
       ELSE /\ At(c, "stop_remove")
            /\ UNCHANGED signalled
    /\ UNCHANGED <<pidfile, running, next_pid>>

\* stop: the loop of ten polls ends when the process is gone, or after the
\* tenth poll.
stop_wait(c, polls_over) ==
    /\ caller[c].at = "stop_wait"
    /\ caller[c].pid \notin running \/ polls_over
    /\ At(c, "stop_remove")
    /\ UNCHANGED <<pidfile, running, signalled, next_pid>>

\* stop: if os.path.exists(self.pidfile): os.remove(self.pidfile)
stop_remove(c) ==
    /\ caller[c].at = "stop_remove"
    /\ pidfile' = None
    /\ AtWith(c, "idle", 0)
    /\ UNCHANGED <<running, signalled, next_pid>>

\* A daemon that got SIGTERM ends; when it ends by an exit of Python, delpid
\* runs and removes the pidfile.
daemon_ends(d, runs_atexit) ==
    /\ d \in running \cap signalled
    /\ running' = running \ {d}
    /\ pidfile' = IF runs_atexit THEN None ELSE pidfile
    /\ UNCHANGED <<signalled, next_pid, caller>>

daemonOtherVars ==
    <<treeVars, callVars, traverseVars, matchVars, metaVars, memo, robustVars,
      cliVars, eventVars>>

InitDaemon == InitStore

NextDaemon ==
    \/ \E c \in Callers : start_exists(c) /\ UNCHANGED daemonOtherVars
    \/ \E c \in Callers : start_open(c) /\ UNCHANGED daemonOtherVars
    \/ \E c \in Callers : start_kill(c) /\ UNCHANGED daemonOtherVars
    \/ \E c \in Callers : start_remove(c) /\ UNCHANGED daemonOtherVars
    \/ \E c \in Callers : daemonize_fork(c) /\ UNCHANGED daemonOtherVars
    \/ \E c \in Callers : daemonize_write(c) /\ UNCHANGED daemonOtherVars
    \/ \E c \in Callers : stop_exists(c) /\ UNCHANGED daemonOtherVars
    \/ \E c \in Callers : stop_open(c) /\ UNCHANGED daemonOtherVars
    \/ \E c \in Callers : stop_kill(c) /\ UNCHANGED daemonOtherVars
    \/ \E c \in Callers, polls_over \in BOOLEAN :
           stop_wait(c, polls_over) /\ UNCHANGED daemonOtherVars
    \/ \E c \in Callers : stop_remove(c) /\ UNCHANGED daemonOtherVars
    \/ \E d \in 1..MaxDaemons, runs_atexit \in BOOLEAN :
           daemon_ends(d, runs_atexit) /\ UNCHANGED daemonOtherVars

SpecDaemon == InitDaemon /\ [][NextDaemon]_vars

\* C28: at most one daemon runs; no daemon is forked while the pidfile names
\* a live process; the pidfile goes only when the process it names is gone.
AtMostOneDaemon == Cardinality(running) <= 1

NoSecondLaunch ==
    running' \ running # {} => ~(pidfile # None /\ pidfile[1] \in running)

RemovedOnlyWhenGone ==
    (pidfile # None /\ pidfile' = None) => pidfile[1] \notin running'

C28_AtMostOneInstance ==
    /\ []AtMostOneDaemon
    /\ [][NoSecondLaunch /\ RemovedOnlyWhenGone]_vars

====
